---------------------------- MODULE Spec2Model ----------------------------
(* Model of the recursive Wikipedia crawl of                               *)
(* wikiFetch/GivingOneMovieItGoesInDepthSearchUptoMaxMOvieCount.py:        *)
(* process_movie_recursive driven by test_multiple_movies, the three JSON  *)
(* stores it writes, and the process being killed and started again.       *)
(*                                                                         *)
(* Identifiers are integers.  A positive integer u is the title written    *)
(* with underscores (the form found in /wiki/ hrefs); -u is the same title *)
(* written with spaces (the form of the page's <h1>); 0 is a title under a *)
(* reserved namespace ("Category:...").                                    *)
EXTENDS Integers, Sequences, FiniteSets, TLC

\* ------------------------------------------------------------------------
\* Configuration (module constants of the source)
\* ------------------------------------------------------------------------
MAX_MOVIES == 5000
MAX_SAFETY_DEPTH == 20
MAX_HISTORY_LINKS == 100

\* ------------------------------------------------------------------------
\* Bounds of the model
\* ------------------------------------------------------------------------
ChainLen == 25      \* number of links of the linear chain of pages
MaxRuns == 2        \* crawl runs (process starts) in one behaviour
MaxBudget == 2      \* small item budgets tried besides MAX_MOVIES

NumPages == ChainLen + 1
Pages == 1..NumPages

\* ------------------------------------------------------------------------
\* The site: which pages link to which (raw hrefs of the list items of the
\* "External links" section, in document order)
\* ------------------------------------------------------------------------
WebNames == {"cycle", "diamond", "chain", "shortcut"}

RawLinks(w, u) ==
    CASE w = "cycle"    -> (IF u = 1 THEN <<2>> ELSE IF u = 2 THEN <<1>> ELSE <<>>)
      [] w = "diamond"  -> (IF u = 1 THEN <<2, 0, 3, 2>>
                            ELSE IF u = 2 THEN <<4, 2>>
                            ELSE IF u = 3 THEN <<4, 1>>
                            ELSE IF u = 4 THEN <<1>> ELSE <<>>)
      [] w = "chain"    -> (IF u < NumPages THEN <<u + 1>> ELSE <<>>)
      [] w = "shortcut" -> (IF u = 1 THEN <<2, MAX_SAFETY_DEPTH + 1>>
                            ELSE IF u < MAX_SAFETY_DEPTH + 2 THEN <<u + 1>> ELSE <<>>)

\* pages whose markup has an <h1>
HasH1(u) == u # 2

Seeds(w) ==
    CASE w = "cycle"    -> {1, 2, -1}
      [] w = "diamond"  -> {1, 3}
      [] w = "chain"    -> {1}
      [] w = "shortcut" -> {1}

Budgets == (0..MaxBudget) \cup {MAX_MOVIES}

\* outcomes of the extraction GET + parse, and of the link GET
FetchOutcomes == {"success", "noplot", "non200", "transport", "raise"}
LinkOutcomes == {"ok", "non200", "raise"}

None == "None"

COMPLETED_MOVIES_FILE == "completedTestMovieList.json"
TEST_RESULTS_FILE == "testedresult.json"
MOVIE_INFO_FILE == "moviesInfoData.json"
EXTERNAL_LINKS_HISTORY_FILE == "external_links_history.json"

\* ------------------------------------------------------------------------
\* Pure functions of the source
\* ------------------------------------------------------------------------
\* movie_title.strip().replace(" ", "_")
search_title(movie_title) == IF movie_title < 0 THEN -movie_title ELSE movie_title

\* the duplicate / namespace filter of extract_external_links
RECURSIVE extract_from(_, _)
extract_from(hrefs, external_links) ==
    IF hrefs = <<>> THEN external_links
    ELSE LET movie_title == Head(hrefs)
             reserved == movie_title = 0
             seen == \E k \in 1..Len(external_links) : external_links[k] = movie_title
         IN  extract_from(Tail(hrefs),
                          IF ~reserved /\ ~seen
                          THEN Append(external_links, movie_title)
                          ELSE external_links)

extract_external_links(w, u) == extract_from(RawLinks(w, u), <<>>)

\* the dict returned by get_movie_summary_wikipedia
get_movie_summary_wikipedia(movie_title, outcome) ==
    LET u == search_title(movie_title)
    IN  CASE outcome = "non200" ->
               [keys |-> {"error"}, status |-> None,
                error |-> "Failed to fetch page", movie_title |-> 0, url |-> 0]
          [] outcome = "transport" ->
               [keys |-> {"error"}, status |-> None,
                error |-> "Request failed", movie_title |-> 0, url |-> 0]
          [] outcome = "noplot" ->
               [keys |-> {"error"}, status |-> None,
                error |-> "Plot section not found or empty.", movie_title |-> 0, url |-> 0]
          [] outcome = "success" ->
               [keys |-> {"movie_title", "url", "status", "plot_summary"},
                status |-> "success", error |-> None,
                movie_title |-> (IF HasH1(u) THEN -u ELSE movie_title), url |-> u]

\* ------------------------------------------------------------------------
\* Text of a page: a text is a sequence of characters, a paragraph is the
\* sequence of its text nodes, a page is its <h2> headings and its <p>
\* paragraphs, each paragraph under the heading that precedes it (0: none)
\* ------------------------------------------------------------------------
MaxTextLen == 3

Whitespace == {" ", "\n"}
Digits == {"1"}
Chars == {"a", " ", "\n", "[", "]", "1"}

RECURSIVE TextsOfLen(_)
TextsOfLen(n) ==
    IF n = 0 THEN {<<>>}
    ELSE {Append(text, c) : text \in TextsOfLen(n - 1), c \in Chars}

Texts(n) == UNION {TextsOfLen(k) : k \in 0..n}

\* first index from i on whose character is outside the class
RECURSIVE skip(_, _, _)
skip(text, i, class) ==
    IF i <= Len(text) /\ text[i] \in class THEN skip(text, i + 1, class) ELSE i

\* str.strip()
RECURSIVE rstrip(_)
rstrip(text) ==
    IF text # <<>> /\ text[Len(text)] \in Whitespace
    THEN rstrip(SubSeq(text, 1, Len(text) - 1))
    ELSE text

strip(text) ==
    LET first == skip(text, 1, Whitespace)
    IN  rstrip(SubSeq(text, first, Len(text)))

\* index of the "]" that ends a match of \[\s*\d+\s*\] starting at i, else 0
ref_end(text, i) ==
    IF text[i] # "[" THEN 0
    ELSE LET digits_from == skip(text, i + 1, Whitespace)
             digits_to == skip(text, digits_from, Digits)
             bracket == skip(text, digits_to, Whitespace)
         IN  IF digits_to > digits_from /\ bracket <= Len(text) /\ text[bracket] = "]"
             THEN bracket
             ELSE 0

\* re.sub(r'\[\s*\d+\s*\]', '', text)
RECURSIVE sub_references(_, _)
sub_references(text, i) ==
    IF i > Len(text) THEN <<>>
    ELSE IF ref_end(text, i) > 0 THEN sub_references(text, ref_end(text, i) + 1)
    ELSE <<text[i]>> \o sub_references(text, i + 1)

\* re.sub(r'\s+', ' ', text)
RECURSIVE sub_whitespace(_, _)
sub_whitespace(text, i) ==
    IF i > Len(text) THEN <<>>
    ELSE IF text[i] \in Whitespace
         THEN <<" ">> \o sub_whitespace(text, skip(text, i, Whitespace))
    ELSE <<text[i]>> \o sub_whitespace(text, i + 1)

clean_keeps_references(text) ==
    IF text = <<>> THEN text
    ELSE strip(sub_whitespace(text, 1))

clean_reference_numbers(text) ==
    IF text = <<>> THEN text
    ELSE strip(sub_whitespace(sub_references(text, 1), 1))

\* p.get_text(separator=" ", strip=True): the stripped, non-empty text nodes
\* joined by one space
RECURSIVE get_text(_)
get_text(nodes) ==
    IF nodes = <<>> THEN <<>>
    ELSE LET string == strip(Head(nodes))
             rest == get_text(Tail(nodes))
         IN  IF string = <<>> THEN rest
             ELSE IF rest = <<>> THEN string
             ELSE string \o <<" ">> \o rest

\* the heading extract_plot_text takes for the Plot section: an <h2> with id
\* "plot" or "Plot", else the first <h2> whose text or id contains "plot";
\* 0 when there is none
find_plot_h2(soup) ==
    LET by_id == {k \in 1..Len(soup.headings) : soup.headings[k] = "id_plot"}
        by_text == {k \in 1..Len(soup.headings) :
                       soup.headings[k] \in {"id_plot", "text_plot"}}
        first(S) == CHOOSE k \in S : \A j \in S : k <= j
    IN  IF by_id # {} THEN first(by_id)
        ELSE IF by_text # {} THEN first(by_text)
        ELSE 0

RECURSIVE plot_text_from(_, _, _)
plot_text_from(soup, plot_h2, k) ==
    IF k > Len(soup.paragraphs) THEN <<>>
    ELSE LET p == soup.paragraphs[k]
             text == clean_reference_numbers(get_text(p.nodes))
         IN  IF p.previous_h2 = plot_h2 /\ text # <<>>
             THEN text \o <<"\n">> \o plot_text_from(soup, plot_h2, k + 1)
             ELSE plot_text_from(soup, plot_h2, k + 1)

extract_plot_text(soup) ==
    IF find_plot_h2(soup) = 0 THEN <<>>
    ELSE plot_text_from(soup, find_plot_h2(soup), 1)

plot_outcome_unchecked(soup) == "success"

\* what the parse of a fetched page comes to
plot_outcome(soup) ==
    IF strip(extract_plot_text(soup)) = <<>> THEN "noplot" ELSE "success"

plot_summary_of(soup, result) ==
    IF result.status = "success" THEN strip(extract_plot_text(soup)) ELSE <<>>

\* ------------------------------------------------------------------------
\* Links of a page: the <li> items under the "External links" heading, each
\* with the target of its first <a> and the text node of that <a>
\* ------------------------------------------------------------------------
MaxItems == 3
MaxLinkTextLen == 2

LinkChars == {"a", "v", "V", " "}

RECURSIVE LinkTextsOfLen(_)
LinkTextsOfLen(n) ==
    IF n = 0 THEN {<<>>}
    ELSE {Append(text, c) : text \in LinkTextsOfLen(n - 1), c \in LinkChars}

LinkTexts(n) == UNION {LinkTextsOfLen(k) : k \in 0..n}

nav_elements ==
    <<<<"v">>,
      <<"t">>,
      <<"e">>,
      <<"v", " ", "t", " ", "e">>,
      <<"v", "i", "e", "w">>,
      <<"t", "e", "m", "p", "l", "a", "t", "e">>,
      <<"e", "d", "i", "t">>,
      <<"t", "a", "l", "k">>,
      <<"h", "i", "s", "t", "o", "r", "y">>,
      <<"w", "a", "t", "c", "h">>,
      <<"s", "t", "a", "r">>,
      <<"p", "r", "i", "v", "a", "c", "y", " ", "p", "o", "l", "i", "c", "y">>,
      <<"a", "b", "o", "u", "t", " ", "w", "i", "k", "i", "p", "e", "d", "i", "a">>,
      <<"d", "i", "s", "c", "l", "a", "i", "m", "e", "r", "s">>,
      <<"c", "o", "n", "t", "a", "c", "t", " ", "w", "i", "k", "i", "p", "e", "d", "i", "a">>,
      <<"c", "o", "d", "e", " ", "o", "f", " ", "c", "o", "n", "d", "u", "c", "t">>,
      <<"d", "e", "v", "e", "l", "o", "p", "e", "r", "s">>,
      <<"s", "t", "a", "t", "i", "s", "t", "i", "c", "s">>,
      <<"c", "o", "o", "k", "i", "e", " ", "s", "t", "a", "t", "e", "m", "e", "n", "t">>,
      <<"m", "o", "b", "i", "l", "e", " ", "v", "i", "e", "w">>>>

\* str.lower()
lower(text) ==
    [k \in 1..Len(text) |-> CASE text[k] = "V" -> "v"
                              [] text[k] = "A" -> "a"
                              [] OTHER -> text[k]]

\* "nav in text"
IsSubstring(nav, text) ==
    \E k \in 0..(Len(text) - Len(nav)) : SubSeq(text, k + 1, k + Len(nav)) = nav

is_valid_external_link_exact(text) ==
    LET text_stripped == strip(text)
    IN  /\ \A k \in 1..Len(nav_elements) : nav_elements[k] # text_stripped
        /\ Len(text_stripped) > 1

is_valid_external_link(text) ==
    LET text_stripped == strip(text)
    IN  /\ \A k \in 1..Len(nav_elements) : nav_elements[k] # text_stripped
        /\ ~\E k \in 1..Len(nav_elements) :
               IsSubstring(nav_elements[k], lower(text_stripped))
        /\ Len(text_stripped) > 1

\* link.get_text(strip=True)
link_text(element) == strip(element.text)

\* the href is a Wikipedia link whose text is accepted
IsCandidate(element) ==
    element.kind = "wiki" /\ is_valid_external_link(link_text(element))

\* href.split("/wiki/")[-1] of the candidates, in document order
RECURSIVE candidate_titles(_)
candidate_titles(elements) ==
    IF elements = <<>> THEN <<>>
    ELSE IF IsCandidate(Head(elements))
         THEN <<Head(elements).movie_title>> \o candidate_titles(Tail(elements))
         ELSE candidate_titles(Tail(elements))

\* the texts is_valid_external_link is called on, with its answers
RECURSIVE checked_texts(_)
checked_texts(elements) ==
    IF elements = <<>> THEN <<>>
    ELSE IF Head(elements).kind = "wiki"
         THEN <<[text |-> link_text(Head(elements)),
                 valid |-> is_valid_external_link(link_text(Head(elements)))]>>
                \o checked_texts(Tail(elements))
         ELSE checked_texts(Tail(elements))

RECURSIVE wiki_titles(_)
wiki_titles(elements) ==
    IF elements = <<>> THEN <<>>
    ELSE IF Head(elements).kind = "wiki"
         THEN <<Head(elements).movie_title>> \o wiki_titles(Tail(elements))
         ELSE wiki_titles(Tail(elements))

extract_links_of_soup_unfiltered(soup) == wiki_titles(soup.items)

\* extract_external_links(soup) on the markup itself
extract_links_of_soup(soup) ==
    IF ~soup.external_section THEN <<>>
    ELSE extract_from(candidate_titles(soup.items), <<>>)

\* ------------------------------------------------------------------------
\* Attributes of a page: extract_movie_details.  The infobox is its rows
\* (header text, data cell), a section or subsection is its heading id and
\* the text nodes of the elements under it
\* ------------------------------------------------------------------------
NoDetails == [field \in {} |-> <<>>]

\* details[field] = value
Put(details, field, value) ==
    [f \in DOMAIN details \cup {field} |-> IF f = field THEN value ELSE details[f]]

\* the field of the first pattern of infobox_mapping found in the header
field_of(key) ==
    CASE key = "directed by" -> "director"
      [] key = "budget" -> "budget"
      [] key = "box office" -> "box_office"
      [] key = "distributed by" -> "distributor"
      [] OTHER -> None

see_below == <<"s", "e", "e", " ", "b", "e", "l", "o", "w">>

\* what a row stores under its field
infobox_value(field, value) ==
    IF field = "distributor" /\ IsSubstring(see_below, lower(value))
    THEN <<"Multiple distributors (see details)">>
    ELSE value

RECURSIVE infobox_details(_, _)
infobox_details(rows, details) ==
    IF rows = <<>> THEN details
    ELSE LET row == Head(rows)
             value == clean_reference_numbers(get_text(row.td))
             field == IF row.has_th /\ row.has_td THEN field_of(row.th) ELSE None
             stored == IF field = None THEN None ELSE infobox_value(field, value)
         IN  infobox_details(Tail(rows),
                             IF stored = None THEN details ELSE Put(details, field, stored))

section_mappings ==
    <<[id |-> "Cast", field |-> "cast_details", tag |-> "li"],
      [id |-> "filming", field |-> "filming", tag |-> "p"],
      [id |-> "Music", field |-> "music_details", tag |-> "p"],
      [id |-> "Production", field |-> "production_details", tag |-> "p"],
      [id |-> "Marketing", field |-> "marketing_details", tag |-> "p"],
      [id |-> "Release", field |-> "release_details", tag |-> "p"],
      [id |-> "Reception", field |-> "reception_details", tag |-> "p"],
      [id |-> "External_links", field |-> "external_links", tag |-> "li"],
      [id |-> "References", field |-> "references", tag |-> "li"]>>

subsection_mappings ==
    <<[id |-> "Distribution", field |-> "distributor_details"],
      [id |-> "Box_office", field |-> "box_office_details"],
      [id |-> "Critical_response", field |-> "critical_response_details"],
      [id |-> "Home_media", field |-> "home_media_details"],
      [id |-> "Theatrical", field |-> "theatrical_details"],
      [id |-> "Development", field |-> "development_details"],
      [id |-> "Casting", field |-> "casting_details"],
      [id |-> "Filming", field |-> "filming_details"]>>

ListFields == {"cast_details", "external_links", "references"}

\* soup.find(heading, {"id": id}): the elements under the first such heading
HasHeading(sections, id) == \E k \in 1..Len(sections) : sections[k].id = id

ElementsUnder(sections, id) ==
    sections[CHOOSE k \in 1..Len(sections) :
                 sections[k].id = id /\ \A j \in 1..(k - 1) : sections[j].id # id].elements

\* the cleaned, non-empty texts of the elements of a section
RECURSIVE section_items(_, _)
section_items(elements, field) ==
    IF elements = <<>> THEN <<>>
    ELSE LET text == clean_reference_numbers(get_text(Head(elements)))
             rest == section_items(Tail(elements), field)
         IN  IF text # <<>> /\ (field # "external_links" \/ is_valid_external_link(text))
             THEN <<text>> \o rest
             ELSE rest

\* "\n".join(items)
RECURSIVE join_lines(_)
join_lines(items) ==
    IF items = <<>> THEN <<>>
    ELSE IF Len(items) = 1 THEN items[1]
    ELSE items[1] \o <<"\n">> \o join_lines(Tail(items))

RECURSIVE section_details(_, _, _)
section_details(soup, k, details) ==
    IF k > Len(section_mappings) THEN details
    ELSE LET m == section_mappings[k]
             items == IF HasHeading(soup.sections, m.id)
                      THEN section_items(ElementsUnder(soup.sections, m.id), m.field)
                      ELSE <<>>
         IN  section_details(soup, k + 1,
                 IF items = <<>> THEN details
                 ELSE Put(details, m.field,
                          IF m.field \in ListFields THEN items ELSE join_lines(items)))

\* text += clean_reference_numbers(...) + "\n"
RECURSIVE subsection_text(_)
subsection_text(elements) ==
    IF elements = <<>> THEN <<>>
    ELSE clean_reference_numbers(get_text(Head(elements))) \o <<"\n">>
           \o subsection_text(Tail(elements))

RECURSIVE subsection_details(_, _, _)
subsection_details(soup, k, details) ==
    IF k > Len(subsection_mappings) THEN details
    ELSE LET m == subsection_mappings[k]
             text == IF HasHeading(soup.subsections, m.id)
                     THEN subsection_text(ElementsUnder(soup.subsections, m.id))
                     ELSE <<>>
         IN  subsection_details(soup, k + 1,
                 IF strip(text) = <<>> THEN details ELSE Put(details, m.field, strip(text)))

extract_movie_details(soup) ==
    LET infobox == IF soup.infobox.present
                   THEN infobox_details(soup.infobox.rows, NoDetails)
                   ELSE NoDetails
    IN  subsection_details(soup, 1, section_details(soup, 1, infobox))

\* **movie_details of the success record
details_of(soup, result) ==
    IF result.status = "success" THEN extract_movie_details(soup) ELSE NoDetails

\* error_data of the except branch
error_data == [keys |-> {"error", "status"}, status |-> "error",
               error |-> "exception", movie_title |-> 0, url |-> 0]

NoResult == [keys |-> {}, status |-> None, error |-> None, movie_title |-> 0, url |-> 0]

\* ------------------------------------------------------------------------
\* Item store
\* ------------------------------------------------------------------------
HasEntry(completed_movies, movie_title) ==
    \E k \in 1..Len(completed_movies) : completed_movies[k].movie_title = movie_title

is_movie_completed_any_status(completed_movies, movie_title) ==
    HasEntry(completed_movies, movie_title)

is_movie_completed(completed_movies, movie_title) ==
    \E k \in 1..Len(completed_movies) :
        /\ completed_movies[k].movie_title = movie_title
        /\ completed_movies[k].status = "success"

save_completed_movie_append(completed_movies, movie_title, movie_data) ==
    Append(completed_movies,
           [movie_title |-> movie_title,
            status |-> IF movie_data.status = "success" THEN "success" ELSE "failed",
            error |-> IF movie_data.status # "success" THEN movie_data.error ELSE None])

save_completed_movie_move_to_end(completed_movies, movie_title, movie_data) ==
    Append(SelectSeq(completed_movies, LAMBDA m : m.movie_title # movie_title),
           [movie_title |-> movie_title,
            status |-> IF movie_data.status = "success" THEN "success" ELSE "failed",
            error |-> IF movie_data.status # "success" THEN movie_data.error ELSE None])

file_after_load_truncated(file) == <<>>

\* load_completed_movies opens the file with mode "r": reading leaves it as it is
file_after_load(file) == file

save_completed_movie(completed_movies, movie_title, movie_data) ==
    LET movie_info ==
            [movie_title |-> movie_title,
             status |-> IF movie_data.status = "success" THEN "success" ELSE "failed",
             error |-> IF movie_data.status # "success" THEN movie_data.error ELSE None]
    IN  IF HasEntry(completed_movies, movie_title)
        THEN LET first == CHOOSE k \in 1..Len(completed_movies) :
                            /\ completed_movies[k].movie_title = movie_title
                            /\ \A j \in 1..(k - 1) : completed_movies[j].movie_title # movie_title
             IN  [completed_movies EXCEPT ![first] = movie_info]
        ELSE Append(completed_movies, movie_info)

IsTrackingEntry_loose(movie) ==
    /\ "status" \in movie.keys
    /\ Cardinality(movie.keys) <= 5

\* the entries cleanup_movies_info_data drops
IsTrackingEntry(movie) ==
    /\ "completion_timestamp" \in movie.keys
    /\ "status" \in movie.keys
    /\ "plot_summary" \notin movie.keys
    /\ Cardinality(movie.keys) <= 5

cleanup_movies_info_data(movie_data) == SelectSeq(movie_data, LAMBDA movie : ~IsTrackingEntry(movie))

test_result_of(movie_title, result, test_number) ==
    [test_number |-> test_number, movie_title |-> movie_title,
     extraction_status |-> IF result.status = "success" THEN "success" ELSE "failed",
     depth |-> 0]

error_result_of(movie_title, test_number) ==
    [test_number |-> test_number, movie_title |-> movie_title,
     extraction_status |-> "error", depth |-> 0]

movie_info_data_of(movie_title, result) ==
    [keys |-> {"id", "movie_title"} \cup result.keys,
     movie_title |-> IF "movie_title" \in result.keys THEN result.movie_title ELSE movie_title,
     url |-> result.url, status |-> result.status]

add_to_history_keeping_oldest(history, movie_title, external_links, depth) ==
    LET appended == Append(history, [movie_title |-> movie_title,
                                     external_links |-> external_links,
                                     depth |-> depth,
                                     link_count |-> Len(external_links)])
    IN  IF Len(appended) > MAX_HISTORY_LINKS
        THEN SubSeq(appended, 1, MAX_HISTORY_LINKS)
        ELSE appended

add_to_external_links_history(history, movie_title, external_links, depth) ==
    LET appended == Append(history, [movie_title |-> movie_title,
                                     external_links |-> external_links,
                                     depth |-> depth,
                                     link_count |-> Len(external_links)])
    IN  IF Len(appended) > MAX_HISTORY_LINKS
        THEN SubSeq(appended, Len(appended) - MAX_HISTORY_LINKS + 1, Len(appended))
        ELSE appended

\* ------------------------------------------------------------------------
\* State
\* ------------------------------------------------------------------------
VARIABLES
    web,                \* the site being crawled
    completedFile,      \* completedTestMovieList.json
    testFile,           \* testedresult.json
    infoFile,           \* moviesInfoData.json
    historyFile,        \* external_links_history.json
    phase,              \* "idle", "running", "done", "killed"
    start_movie,        \* seed of the current run
    max_movies,         \* budget of the current run
    stack,              \* active calls of process_movie_recursive, root first
    processed_movies,   \* shared set
    global_visited,     \* shared set
    runs,               \* runs started so far
    prev,               \* seed and end of the previous run
    start_completed,    \* completedFile as it was when the current run started
    http_log,           \* GETs issued in the current run, in order
    all_ok,             \* every GET / parse of the current run succeeded
    guard_log,          \* last decision of the already-in-index check
    unreadable,         \* the files whose content does not parse as JSON
    call_log,           \* the direct calls of the stores, with what they found
    page,               \* markup handed to the extractor
    extraction,         \* what the extractor returned for it
    PROCESS_ALL_EXTERNAL_LINKS,             \* settings at the head of the source,
    MAX_LINKS_PER_MOVIE,                    \* as the user left them before the
    ENABLE_CIRCULAR_REFERENCE_PREVENTION,   \* process was started
    ENABLE_GLOBAL_DUPLICATE_PREVENTION

store == <<completedFile, testFile, infoFile, historyFile>>
memory == <<stack, processed_movies, global_visited>>
run == <<phase, start_movie, max_movies, runs, prev, start_completed>>
observed == <<http_log, all_ok, guard_log>>
direct == <<call_log, page, extraction>>
settings == <<PROCESS_ALL_EXTERNAL_LINKS, MAX_LINKS_PER_MOVIE,
              ENABLE_CIRCULAR_REFERENCE_PREVENTION, ENABLE_GLOBAL_DUPLICATE_PREVENTION>>
vars == <<web, store, unreadable, memory, run, observed, direct, settings>>

NoPage == [headings |-> <<>>, paragraphs |-> <<>>, external_section |-> FALSE, items |-> <<>>,
           infobox |-> [present |-> FALSE, rows |-> <<>>], sections |-> <<>>,
           subsections |-> <<>>]
NoExtraction == [record |-> NoResult, plot_summary |-> <<>>, details |-> NoDetails,
                 external_links |-> <<>>, link_texts |-> <<>>]

NoGuard == [movie_title |-> 0, aborted |-> FALSE, status |-> None]

\* no file has been written yet
NoFiles ==
    /\ completedFile = <<>>
    /\ testFile = <<>>
    /\ infoFile = <<>>
    /\ historyFile = <<>>
    /\ unreadable = {}

\* the settings as the source has them
Shipped ==
    /\ PROCESS_ALL_EXTERNAL_LINKS = TRUE
    /\ MAX_LINKS_PER_MOVIE = 10
    /\ ENABLE_CIRCULAR_REFERENCE_PREVENTION = TRUE
    /\ ENABLE_GLOBAL_DUPLICATE_PREVENTION = TRUE

\* nothing in memory, nothing extracted
Idle ==
    /\ phase = "idle"
    /\ start_movie = 0
    /\ max_movies = 0
    /\ stack = <<>>
    /\ processed_movies = {}
    /\ global_visited = {}
    /\ runs = 0
    /\ prev = [seed |-> 0, phase |-> "idle"]
    /\ start_completed = <<>>
    /\ http_log = <<>>
    /\ all_ok = TRUE
    /\ guard_log = NoGuard
    /\ call_log = <<>>
    /\ extraction = NoExtraction

\* the program as it is in the repository, before its first start
NotStarted == Shipped /\ Idle

Fresh == NoFiles /\ NotStarted

Init ==
    /\ web \in WebNames
    /\ Fresh
    /\ page = NoPage

\* ------------------------------------------------------------------------
\* process_movie_recursive: the guards and the bookkeeping
\* ------------------------------------------------------------------------
load_external_links_history ==
    IF EXTERNAL_LINKS_HISTORY_FILE \in unreadable THEN <<>> ELSE historyFile

load_completed_movies_unguarded == completedFile

\* json.load of the completion file; a missing file and a file that does not
\* parse both give []
load_completed_movies ==
    IF COMPLETED_MOVIES_FILE \in unreadable THEN <<>> ELSE completedFile

DepthGuard_late(recursion_depth) == recursion_depth > MAX_SAFETY_DEPTH + 1

DepthGuard(recursion_depth) == recursion_depth > MAX_SAFETY_DEPTH

GlobalVisitedGuard(movie_title) == movie_title \in global_visited

BudgetGuard_off_by_one(processed, budget) == Cardinality(processed) > budget

BudgetGuard(processed, budget) == Cardinality(processed) >= budget

BranchGuard(movie_title, visited_in_current_branch) ==
    ENABLE_CIRCULAR_REFERENCE_PREVENTION /\ movie_title \in visited_in_current_branch

DuplicateGuard(movie_title) ==
    ENABLE_GLOBAL_DUPLICATE_PREVENTION /\ movie_title \in processed_movies

Guards(f) ==
    \/ DepthGuard(f.recursion_depth)
    \/ GlobalVisitedGuard(f.movie_title)
    \/ BudgetGuard(processed_movies, max_movies)
    \/ BranchGuard(f.movie_title, f.visited_in_current_branch)
    \/ DuplicateGuard(f.movie_title)

mark_forgotten(tracking_set, movie_title) == tracking_set

mark_replacing(tracking_set, movie_title) == {movie_title}

\* set.add(movie_title) of the three tracking sets
mark(tracking_set, movie_title) == tracking_set \cup {movie_title}

\* visited_in_current_branch.discard(movie_title)
discard(tracking_set, movie_title) == tracking_set \ {movie_title}

branch_copy_with_link(visited_in_current_branch, link_movie) ==
    visited_in_current_branch \cup {link_movie}

\* visited_in_current_branch.copy(): what the child link_movie is given
branch_copy(visited_in_current_branch, link_movie) == visited_in_current_branch

AlreadyInIndex_never(completed_movies, movie_title) == FALSE

\* any(m.get("movie_title") == movie_title for m in completed_movies)
AlreadyInIndex(completed_movies, movie_title) == HasEntry(completed_movies, movie_title)

StatusInIndex(completed_movies, movie_title) ==
    IF HasEntry(completed_movies, movie_title)
    THEN LET k == CHOOSE k \in 1..Len(completed_movies) :
                    completed_movies[k].movie_title = movie_title
         IN  completed_movies[k].status
    ELSE None

append_forgotten(existing_data, entry) == existing_data

append_overwriting(existing_data, entry) == <<entry>>

\* existing_data.append(entry) followed by the rewrite of the file
append_and_dump(existing_data, entry) == Append(existing_data, entry)

\* json.load of a log inside the save block: a missing file gives [], a file
\* that does not parse raises and the block writes nothing
write_log(file_name, existing_data, entry) ==
    IF file_name \in unreadable THEN existing_data
    ELSE append_and_dump(existing_data, entry)

next_index_stuck(i) == i

\* the loop variable of "for i, link_movie in enumerate(external_links)"
next_index(i) == i + 1

after_movie_info_links_on_http_failure(result) ==
    IF result.status = "success" \/ result.error = "Failed to fetch page"
    THEN "links" ELSE "return"

after_movie_info_always_links(result) == "links"

after_movie_info_retry(result) == IF result.status = "success" THEN "links" ELSE "fetch"

\* "If successful, extract external links and process them recursively";
\* otherwise the call goes on to its summary and returns
after_movie_info(result) == IF result.status = "success" THEN "links" ELSE "return"

should_save_info_always(result) == TRUE

\* "Save movie info data immediately (only if successful)"
should_save_info(result) == result.status = "success"

external_links_of_any_response(outcome, movie_title) ==
    extract_external_links(web, search_title(movie_title))

\* the links the call has after its second GET: those of the page if the
\* response has status 200, none if it has another status or the GET raised
external_links_of_response(outcome, movie_title) ==
    IF outcome = "ok"
    THEN extract_external_links(web, search_title(movie_title))
    ELSE <<>>

NewCall(movie_title, visited_in_current_branch, recursion_depth) ==
    [movie_title |-> movie_title,
     visited_in_current_branch |-> visited_in_current_branch,
     recursion_depth |-> recursion_depth,
     pc |-> "call",
     result |-> NoResult,
     external_links |-> <<>>,
     i |-> 0]

\* the call is past its work: the branch discard is done, "return results"
\* is what is left
to_return(f) ==
    [f EXCEPT !.visited_in_current_branch = discard(@, f.movie_title), !.pc = "return"]

\* where a frame goes from position pc
goto(f, pc) == IF pc = "return" THEN to_return(f) ELSE [f EXCEPT !.pc = pc]

Running == phase = "running" /\ stack # <<>>
Top == stack[Len(stack)]
SetTop(f) == [stack EXCEPT ![Len(stack)] = f]
Pop_propagating ==
    IF Len(stack) > 1 /\ stack[Len(stack)].pc = "return"
       /\ stack[Len(stack)].result.status # "success"
    THEN [SubSeq(stack, 1, Len(stack) - 1) EXCEPT ![Len(stack) - 1].pc = "return"]
    ELSE SubSeq(stack, 1, Len(stack) - 1)

\* the call returns to its caller, which goes on where it was
Pop == SubSeq(stack, 1, Len(stack) - 1)

\* one of the five guards returns []
Prune ==
    /\ Running /\ Top.pc = "call"
    /\ Guards(Top)
    /\ stack' = Pop
    /\ UNCHANGED <<settings, direct, unreadable, web, store, processed_movies, global_visited, run, observed>>

\* the guards pass, the identifier is marked, and it is found in the index:
\* "return []" of the already-processed check is what is left
SkipCompleted ==
    /\ Running /\ Top.pc = "call"
    /\ ~Guards(Top)
    /\ AlreadyInIndex(load_completed_movies, Top.movie_title)
    /\ processed_movies' = mark(processed_movies, Top.movie_title)
    /\ global_visited' = mark(global_visited, Top.movie_title)
    /\ stack' = SetTop([Top EXCEPT
                          !.visited_in_current_branch = mark(@, Top.movie_title),
                          !.pc = "skipped"])
    /\ guard_log' = [movie_title |-> Top.movie_title, aborted |-> TRUE,
                     status |-> StatusInIndex(load_completed_movies, Top.movie_title)]
    /\ UNCHANGED <<settings, direct, unreadable, web, store, run, http_log, all_ok>>

\* the guards pass, the identifier is marked, and it is not in the index
Enter ==
    /\ Running /\ Top.pc = "call"
    /\ ~Guards(Top)
    /\ ~AlreadyInIndex(load_completed_movies, Top.movie_title)
    /\ processed_movies' = mark(processed_movies, Top.movie_title)
    /\ global_visited' = mark(global_visited, Top.movie_title)
    /\ stack' = SetTop([Top EXCEPT
                          !.visited_in_current_branch = mark(@, Top.movie_title),
                          !.pc = "fetch"])
    /\ guard_log' = [movie_title |-> Top.movie_title, aborted |-> FALSE,
                     status |-> StatusInIndex(load_completed_movies, Top.movie_title)]
    /\ UNCHANGED <<settings, direct, unreadable, web, store, run, http_log, all_ok>>

\* get_movie_summary_wikipedia and save_completed_movie; an exception goes
\* to the except branch, which saves error_data
Fetch ==
    /\ Running /\ Top.pc = "fetch"
    /\ \E outcome \in FetchOutcomes :
         /\ http_log' = Append(http_log, [kind |-> "extract", movie_title |-> Top.movie_title])
         /\ all_ok' = (all_ok /\ outcome = "success")
         /\ IF outcome = "raise"
            THEN /\ completedFile' = save_completed_movie(load_completed_movies,
                                                          Top.movie_title, error_data)
                 /\ stack' = SetTop([Top EXCEPT !.result = error_data, !.pc = "error_result"])
            ELSE LET result == get_movie_summary_wikipedia(Top.movie_title, outcome)
                 IN  /\ completedFile' = save_completed_movie(load_completed_movies,
                                                              Top.movie_title, result)
                     /\ stack' = SetTop([Top EXCEPT !.result = result, !.pc = "test_result"])
    /\ unreadable' = unreadable \ {COMPLETED_MOVIES_FILE}
    /\ UNCHANGED <<settings, direct, web, testFile, infoFile, historyFile, processed_movies, global_visited,
                   run, guard_log>>

\* "Save test result immediately"
SaveTestResult ==
    /\ Running /\ Top.pc = "test_result"
    /\ testFile' = write_log(TEST_RESULTS_FILE, testFile,
                       test_result_of(Top.movie_title, Top.result, Cardinality(processed_movies)))
    /\ stack' = SetTop([Top EXCEPT !.pc = "movie_info"])
    /\ UNCHANGED <<settings, direct, unreadable, web, completedFile, infoFile, historyFile, processed_movies, global_visited,
                   run, observed>>

\* "Save movie info data immediately (only if successful)"
SaveMovieInfo ==
    /\ Running /\ Top.pc = "movie_info"
    /\ IF should_save_info(Top.result)
       THEN infoFile' = write_log(MOVIE_INFO_FILE, infoFile,
                            movie_info_data_of(Top.movie_title, Top.result))
       ELSE infoFile' = infoFile
    /\ stack' = SetTop(goto(Top, after_movie_info(Top.result)))
    /\ UNCHANGED <<settings, direct, unreadable, web, completedFile, testFile, historyFile, processed_movies, global_visited,
                   run, observed>>

\* the second GET and extract_external_links
FetchLinks ==
    /\ Running /\ Top.pc = "links"
    /\ \E outcome \in LinkOutcomes :
         /\ http_log' = Append(http_log, [kind |-> "links", movie_title |-> Top.movie_title])
         /\ all_ok' = (all_ok /\ outcome = "ok")
         /\ LET external_links == external_links_of_response(outcome, Top.movie_title)
            IN  IF external_links # <<>>
                THEN /\ historyFile' = add_to_external_links_history(
                                           load_external_links_history, Top.movie_title,
                                           external_links, 0)
                     /\ unreadable' = unreadable \ {EXTERNAL_LINKS_HISTORY_FILE}
                     /\ stack' = SetTop([Top EXCEPT !.external_links = external_links,
                                                    !.i = 1, !.pc = "loop"])
                ELSE /\ historyFile' = historyFile
                     /\ unreadable' = unreadable
                     /\ stack' = SetTop(to_return(Top))
    /\ UNCHANGED <<settings, direct, web, completedFile, testFile, infoFile, processed_movies, global_visited,
                   run, guard_log>>

\* loop body: the link is new and the budget allows it: recursive call
ExpandLink ==
    /\ Running /\ Top.pc = "loop"
    /\ Top.i <= Len(Top.external_links)
    /\ LET link_movie == Top.external_links[Top.i]
       IN  /\ link_movie \notin processed_movies
           /\ Cardinality(processed_movies) < max_movies
           /\ stack' = Append(SetTop([Top EXCEPT !.i = next_index(@)]),
                              NewCall(link_movie,
                                      branch_copy(Top.visited_in_current_branch, link_movie),
                                      Top.recursion_depth + 1))
    /\ UNCHANGED <<settings, direct, unreadable, web, store, processed_movies, global_visited, run, observed>>

\* loop body: the link is skipped
SkipLink ==
    /\ Running /\ Top.pc = "loop"
    /\ Top.i <= Len(Top.external_links)
    /\ LET link_movie == Top.external_links[Top.i]
       IN  ~(link_movie \notin processed_movies /\ Cardinality(processed_movies) < max_movies)
    /\ stack' = SetTop([Top EXCEPT !.i = next_index(@)])
    /\ UNCHANGED <<settings, direct, unreadable, web, store, processed_movies, global_visited, run, observed>>

\* the loop is over
EndLinks ==
    /\ Running /\ Top.pc = "loop"
    /\ Top.i > Len(Top.external_links)
    /\ stack' = SetTop(to_return(Top))
    /\ UNCHANGED <<settings, direct, unreadable, web, store, processed_movies, global_visited, run, observed>>

\* except branch: "Save error results immediately"
SaveErrorResult ==
    /\ Running /\ Top.pc = "error_result"
    /\ testFile' = write_log(TEST_RESULTS_FILE, testFile,
                       error_result_of(Top.movie_title, Cardinality(processed_movies)))
    /\ stack' = SetTop(to_return(Top))
    /\ UNCHANGED <<settings, direct, unreadable, web, completedFile, infoFile, historyFile, processed_movies, global_visited,
                   run, observed>>

\* "return results" / "return []": the call's own copy of the branch set
\* goes away with the frame
Return ==
    /\ Running /\ Top.pc \in {"return", "skipped"}
    /\ stack' = Pop
    /\ UNCHANGED <<settings, direct, unreadable, web, store, processed_movies, global_visited, run, observed>>

\* ------------------------------------------------------------------------
\* test_multiple_movies and the life of the process
\* ------------------------------------------------------------------------
cleanup_completed_movies(completed_movies) ==
    [k \in 1..Len(completed_movies) |->
        [movie_title |-> completed_movies[k].movie_title,
         status |-> completed_movies[k].status,
         error |-> completed_movies[k].error]]

\* setup, cleanup and the root call
test_multiple_movies ==
    /\ phase \in {"idle", "done", "killed"}
    /\ runs < MaxRuns
    /\ \E seed \in Seeds(web), budget \in Budgets :
         /\ start_movie' = seed
         /\ max_movies' = budget
         /\ stack' = <<NewCall(seed, {}, 0)>>
    /\ LET completed_movies == load_completed_movies
           legacy == \E k \in 1..Len(completed_movies) :
                         "extracted_data" \in DOMAIN completed_movies[k]
           cleaned == IF legacy THEN cleanup_completed_movies(completed_movies)
                      ELSE completed_movies
       IN  /\ completedFile' = IF legacy THEN cleaned ELSE completedFile
           /\ start_completed' = cleaned
    /\ infoFile' = IF MOVIE_INFO_FILE \in unreadable THEN infoFile
                   ELSE cleanup_movies_info_data(infoFile)
    /\ processed_movies' = {}
    /\ global_visited' = {}
    /\ phase' = "running"
    /\ runs' = runs + 1
    /\ prev' = [seed |-> start_movie, phase |-> phase]
    /\ http_log' = <<>>
    /\ all_ok' = TRUE
    /\ guard_log' = NoGuard
    /\ UNCHANGED <<settings, direct, unreadable, web, testFile, historyFile>>

\* the root call has returned: final summary
Finish ==
    /\ phase = "running" /\ stack = <<>>
    /\ phase' = "done"
    /\ UNCHANGED <<settings, direct, unreadable, web, store, memory, start_movie, max_movies, runs, prev, start_completed,
                   observed>>

\* the process is killed between two steps: the files stay, the memory goes
Kill ==
    /\ phase = "running"
    /\ phase' = "killed"
    /\ stack' = <<>>
    /\ processed_movies' = {}
    /\ global_visited' = {}
    /\ UNCHANGED <<settings, direct, unreadable, web, store, start_movie, max_movies, runs, prev, start_completed, observed>>

Step ==
    \/ Prune
    \/ SkipCompleted
    \/ Enter
    \/ Fetch
    \/ SaveTestResult
    \/ SaveMovieInfo
    \/ FetchLinks
    \/ ExpandLink
    \/ SkipLink
    \/ EndLinks
    \/ SaveErrorResult
    \/ Return
    \/ Finish

Next ==
    \/ test_multiple_movies
    \/ Step
    \/ Kill

Spec == Init /\ [][Next]_vars

\* the process keeps running until it ends or is killed
FairSpec == Spec /\ WF_vars(Step)

\* ------------------------------------------------------------------------
\* The item store called directly
\* ------------------------------------------------------------------------
StoreTitles == {1, 2, -1}

StoreData ==
    {get_movie_summary_wikipedia(1, outcome) : outcome \in {"success", "noplot", "non200"}}
      \cup {error_data}

Remember(call) ==
    IF call_log = <<>> THEN <<call>> ELSE <<call_log[Len(call_log)], call>>

SaveCompletedCall ==
    \E movie_title \in StoreTitles, movie_data \in StoreData :
        /\ completedFile' = save_completed_movie(load_completed_movies, movie_title, movie_data)
        /\ call_log' = Remember([op |-> "save_completed_movie", movie_title |-> movie_title,
                                 movie_data |-> movie_data, before |-> completedFile,
                                 returned |-> TRUE])
        /\ unreadable' = unreadable \ {COMPLETED_MOVIES_FILE}
        /\ UNCHANGED <<settings, web, testFile, infoFile, historyFile, memory, run, observed,
                       page, extraction>>

IsMovieCompletedCall ==
    \E movie_title \in StoreTitles :
        /\ completedFile' = file_after_load(completedFile)
        /\ call_log' = Remember([op |-> "is_movie_completed", movie_title |-> movie_title,
                                 movie_data |-> NoResult, before |-> completedFile,
                                 returned |-> is_movie_completed(load_completed_movies,
                                                                 movie_title)])
        /\ UNCHANGED <<settings, unreadable, web, testFile, infoFile, historyFile, memory, run, observed,
                       page, extraction>>

StoreInit == Init /\ web = "cycle"

StoreNext ==
    \/ SaveCompletedCall
    \/ IsMovieCompletedCall

StoreSpec == StoreInit /\ [][StoreNext]_vars

\* ------------------------------------------------------------------------
\* The extractor called directly on a page
\* ------------------------------------------------------------------------
Layouts == {<<>>, <<"other">>, <<"id_plot">>, <<"text_plot">>,
            <<"other", "id_plot">>, <<"id_plot", "other">>,
            <<"text_plot", "id_plot">>, <<"text_plot", "other">>}

SecondNodes == {<<>>, <<"]">>}
SecondParagraphs == {<<>>, <<"a">>}

PageOf(headings, h1, t1, t2, h2, t3) ==
    [NoPage EXCEPT
       !.headings = headings,
       !.paragraphs = <<[previous_h2 |-> h1, nodes |-> <<t1, t2>>]>>
                        \o (IF t3 = <<>> THEN <<>>
                            ELSE <<[previous_h2 |-> h2, nodes |-> <<t3>>]>>)]

GetOutcomes == {"ok", "non200", "transport"}

ExtractPage ==
    \E get \in GetOutcomes :
        LET outcome == IF get = "ok" THEN plot_outcome(page) ELSE get
            result == get_movie_summary_wikipedia(1, outcome)
        IN  /\ extraction' = [NoExtraction EXCEPT
                                 !.record = result,
                                 !.plot_summary = plot_summary_of(page, result),
                                 !.details = details_of(page, result)]
            /\ UNCHANGED <<settings, unreadable, web, store, memory, run, observed, call_log, page>>

ExtractInit ==
    /\ web = "cycle"
    /\ Fresh
    /\ \E headings \in Layouts, t1 \in Texts(MaxTextLen), t2 \in SecondNodes,
          t3 \in SecondParagraphs :
           \E h1 \in 0..Len(headings), h2 \in 0..Len(headings) :
               page = PageOf(headings, h1, t1, t2, h2, t3)

ExtractNext == ExtractPage

ExtractSpec == ExtractInit /\ [][ExtractNext]_vars

\* ------------------------------------------------------------------------
\* extract_external_links called directly on a page
\* ------------------------------------------------------------------------
\* targets: /wiki/<1>, /wiki/<2>, /wiki/Category:... (0), another site
Targets == {[kind |-> "wiki", movie_title |-> 1], [kind |-> "wiki", movie_title |-> 2],
            [kind |-> "wiki", movie_title |-> 0], [kind |-> "other", movie_title |-> 0]}

\* an accepted text and a navigation label
OtherTexts == {<<"a", "a">>, <<"v">>}

ItemOf(target, text) ==
    [kind |-> target.kind, movie_title |-> target.movie_title, text |-> text]

RECURSIVE ItemSeqs(_)
ItemSeqs(n) ==
    IF n = 0 THEN {<<>>}
    ELSE ItemSeqs(n - 1)
           \cup {Append(items, ItemOf(target, text)) :
                    items \in {q \in ItemSeqs(n - 1) : Len(q) = n - 1},
                    target \in Targets, text \in OtherTexts}

ExtractLinks ==
    /\ extraction' = [NoExtraction EXCEPT
                        !.external_links = extract_links_of_soup(page),
                        !.link_texts = IF page.external_section
                                       THEN checked_texts(page.items) ELSE <<>>]
    /\ UNCHANGED <<settings, unreadable, web, store, memory, run, observed, call_log, page>>

LinksInit ==
    /\ web = "cycle"
    /\ Fresh
    /\ \E external_section \in BOOLEAN, target \in Targets,
          text \in LinkTexts(MaxLinkTextLen), items \in ItemSeqs(MaxItems - 1) :
           page = [NoPage EXCEPT
                     !.external_section = external_section,
                     !.items = <<ItemOf(target, text)>> \o items]

LinksNext == ExtractLinks

LinksSpec == LinksInit /\ [][LinksNext]_vars

\* ------------------------------------------------------------------------
\* The extractor called on pages with a Plot section and varying attributes
\* ------------------------------------------------------------------------
MaxCellLen == 2

Headers == {"budget", "distributed by", "starring"}

\* rows of the infobox: none (no infobox), a header without data cell, a
\* header with a data cell
RowKinds == {"no infobox", "no cell", "cell"}

\* the elements under a heading: no heading, one element that is only a
\* reference marker, that element and one with text
ElementInputs == {"absent", "marker", "marker and text"}

ElementsOf(input) ==
    IF input = "marker" THEN <<<<<<"[", "1", "]">>>>>>
    ELSE <<<<<<"[", "1", "]">>>>, <<<<"a">>, <<"a">>>>>>

HeadingsOf(ids, inputs) ==
    LET present == {k \in 1..Len(ids) : inputs[k] # "absent"}
        RECURSIVE build(_)
        build(k) ==
            IF k > Len(ids) THEN <<>>
            ELSE IF k \in present
                 THEN <<[id |-> ids[k], elements |-> ElementsOf(inputs[k])]>> \o build(k + 1)
                 ELSE build(k + 1)
    IN  build(1)

DetailsPage(row_kind, th, td, cast, reception, box_office) ==
    [NoPage EXCEPT
       !.headings = <<"id_plot">>,
       !.paragraphs = <<[previous_h2 |-> 1, nodes |-> <<<<"a">>>>]>>,
       !.infobox = [present |-> row_kind # "no infobox",
                    rows |-> IF row_kind = "no infobox" THEN <<>>
                             ELSE <<[has_th |-> TRUE, th |-> th,
                                     has_td |-> row_kind = "cell", td |-> <<td>>]>>],
       !.sections = HeadingsOf(<<"Cast", "Reception">>, <<cast, reception>>),
       !.subsections = HeadingsOf(<<"Box_office">>, <<box_office>>)]

DetailsInit ==
    /\ web = "cycle"
    /\ Fresh
    /\ \E row_kind \in RowKinds, th \in Headers, td \in Texts(MaxCellLen) :
         \E cast \in ElementInputs, reception \in ElementInputs,
            box_office \in ElementInputs :
             page = DetailsPage(row_kind, th, td, cast, reception, box_office)

DetailsNext == ExtractPage

DetailsSpec == DetailsInit /\ [][DetailsNext]_vars

\* ------------------------------------------------------------------------
\* The external-links history called directly, on a history file that
\* earlier calls have filled
\* ------------------------------------------------------------------------
MaxAdds == 2

\* the file after n earlier calls, the k-th of them with the links <<k>>
EarlierHistory(n) ==
    [k \in 1..n |-> [movie_title |-> 1, external_links |-> <<k>>, depth |-> 0,
                     link_count |-> 1]]

AddToHistoryCall ==
    /\ Len(call_log) < MaxAdds
    /\ \E movie_title \in {1, 2}, external_links \in {<<1>>, <<1, 2>>} :
         /\ historyFile' = add_to_external_links_history(load_external_links_history,
                                                         movie_title, external_links, 0)
         /\ call_log' = Append(call_log,
                               [op |-> "add_to_external_links_history",
                                movie_title |-> movie_title,
                                external_links |-> external_links,
                                before |-> historyFile])
    /\ unreadable' = unreadable \ {EXTERNAL_LINKS_HISTORY_FILE}
    /\ UNCHANGED <<settings, web, completedFile, testFile, infoFile, memory, run, observed,
                   page, extraction>>

HistoryInit ==
    /\ web = "cycle"
    /\ NotStarted
    /\ page = NoPage
    /\ completedFile = <<>>
    /\ testFile = <<>>
    /\ infoFile = <<>>
    /\ unreadable = {}
    /\ \E n \in 0..MAX_HISTORY_LINKS : historyFile = EarlierHistory(n)

HistoryNext == AddToHistoryCall

HistorySpec == HistoryInit /\ [][HistoryNext]_vars

\* ------------------------------------------------------------------------
\* The crawl started on a store whose files may be damaged
\* ------------------------------------------------------------------------
Files == {COMPLETED_MOVIES_FILE, TEST_RESULTS_FILE, MOVIE_INFO_FILE,
          EXTERNAL_LINKS_HISTORY_FILE}

\* what a damaged completion file seems to say to one who ignores the damage
Remains == <<[movie_title |-> 1, status |-> "success", error |-> None]>>

DamagedInit ==
    /\ web = "cycle"
    /\ NotStarted
    /\ page = NoPage
    /\ unreadable \in SUBSET Files
    /\ completedFile = IF COMPLETED_MOVIES_FILE \in unreadable THEN Remains ELSE <<>>
    /\ testFile = <<>>
    /\ infoFile = <<>>
    /\ historyFile = <<>>

DamagedSpec == DamagedInit /\ [][Next]_vars

\* ------------------------------------------------------------------------
\* The list runner: test_multiple_movies of
\* listOfMovieToGiveItGetContentForThoseMovieOneByOne.py.  Its helpers are
\* those of the crawl, with the file names written out.
\* ------------------------------------------------------------------------
\* ["OG_(film)", "Baahubali:_The_Beginning"]
test_movies == <<1, 2>>

list_test_result_of(i, movie, result) ==
    [test_number |-> i, movie_title |-> movie,
     extraction_status |-> IF result.status = "success" THEN "success" ELSE "failed"]

list_error_result_of(i, movie) ==
    [test_number |-> i, movie_title |-> movie, extraction_status |-> "error"]

\* {"id": ..., "movie_title": movie, **result}
list_movie_info_data_of(movie, result) ==
    [keys |-> {"id", "movie_title"} \cup result.keys,
     movie_title |-> IF "movie_title" \in result.keys THEN result.movie_title ELSE movie,
     url |-> result.url, status |-> result.status]

\* {"id": ..., "movie_title": movie, "error": str(e)}
error_movie_info_data_of(movie) ==
    [keys |-> {"id", "movie_title", "error"}, movie_title |-> movie,
     url |-> 0, status |-> None]

\* [r for r in results if "id" in r]
records_with_id(movie_info_data) == movie_info_data

\* existing_data.extend(data) followed by the rewrite of the file; a file
\* that does not parse raises and the block writes nothing
extend_and_dump(file_name, existing_data, data) ==
    IF file_name \in unreadable THEN existing_data ELSE existing_data \o data

\* the call of test_multiple_movies that is running
ListFrame(i, test_results, movie_info_data) ==
    [pc |-> "loop", i |-> i, test_results |-> test_results,
     movie_info_data |-> movie_info_data]

\* setup and cleanup, up to the loop over test_movies
list_test_multiple_movies ==
    /\ phase \in {"idle", "done", "killed"}
    /\ runs < MaxRuns
    /\ LET completed_movies == load_completed_movies
           legacy == \E k \in 1..Len(completed_movies) :
                         "extracted_data" \in DOMAIN completed_movies[k]
           cleaned == IF legacy THEN cleanup_completed_movies(completed_movies)
                      ELSE completed_movies
       IN  /\ completedFile' = IF legacy THEN cleaned ELSE completedFile
           /\ start_completed' = cleaned
    /\ infoFile' = IF MOVIE_INFO_FILE \in unreadable THEN infoFile
                   ELSE cleanup_movies_info_data(infoFile)
    /\ stack' = <<ListFrame(1, <<>>, <<>>)>>
    /\ phase' = "running"
    /\ runs' = runs + 1
    /\ prev' = [seed |-> start_movie, phase |-> phase]
    /\ http_log' = <<>>
    /\ all_ok' = TRUE
    /\ UNCHANGED <<settings, direct, unreadable, web, testFile, historyFile, start_movie,
                   max_movies, processed_movies, global_visited, guard_log>>

InList == Running /\ Top.pc = "loop" /\ Top.i <= Len(test_movies)

\* "Movie already completed - skipping"
ListSkip ==
    /\ InList
    /\ is_movie_completed(load_completed_movies, test_movies[Top.i])
    /\ stack' = SetTop([Top EXCEPT !.i = @ + 1])
    /\ UNCHANGED <<settings, direct, unreadable, web, store, processed_movies, global_visited,
                   run, observed>>

\* the body of the loop for one movie: the GET, the completion entry, and
\* the two records kept for the end of the batch
ListProcess ==
    /\ InList
    /\ ~is_movie_completed(load_completed_movies, test_movies[Top.i])
    /\ \E outcome \in FetchOutcomes :
         LET movie == test_movies[Top.i]
             result == IF outcome = "raise" THEN error_data
                       ELSE get_movie_summary_wikipedia(movie, outcome)
             test_result == IF outcome = "raise" THEN list_error_result_of(Top.i, movie)
                            ELSE list_test_result_of(Top.i, movie, result)
             record == IF outcome = "raise" THEN error_movie_info_data_of(movie)
                       ELSE list_movie_info_data_of(movie, result)
         IN  /\ http_log' = Append(http_log, [kind |-> "extract", movie_title |-> movie])
             /\ all_ok' = (all_ok /\ outcome = "success")
             /\ completedFile' = save_completed_movie(load_completed_movies, movie, result)
             /\ stack' = SetTop(ListFrame(Top.i + 1, Append(Top.test_results, test_result),
                                          Append(Top.movie_info_data, record)))
    /\ unreadable' = unreadable \ {COMPLETED_MOVIES_FILE}
    /\ UNCHANGED <<settings, direct, web, testFile, infoFile, historyFile, processed_movies,
                   global_visited, run, guard_log>>

\* "Save to JSON files", and the end of the batch
ListSave ==
    /\ Running /\ Top.pc = "loop" /\ Top.i > Len(test_movies)
    /\ testFile' = extend_and_dump(TEST_RESULTS_FILE, testFile, Top.test_results)
    /\ infoFile' = extend_and_dump(MOVIE_INFO_FILE, infoFile,
                                   records_with_id(Top.movie_info_data))
    /\ stack' = <<>>
    /\ phase' = "done"
    /\ UNCHANGED <<settings, direct, unreadable, web, completedFile, historyFile,
                   processed_movies, global_visited, start_movie, max_movies, runs, prev,
                   start_completed, observed>>

ListInit == Init /\ web = "cycle"

ListNext ==
    \/ list_test_multiple_movies
    \/ ListSkip
    \/ ListProcess
    \/ ListSave
    \/ Kill

ListSpec == ListInit /\ [][ListNext]_vars

\* ------------------------------------------------------------------------
\* The crawl with the settings changed by the user
\* ------------------------------------------------------------------------
\* the sites on which a page is linked from several pages
CyclicWebs == {"cycle", "diamond"}

\* caps tried for "limit per movie": the smallest, and the one of the source
LinkCaps == {1, 10}

\* PROCESS_ALL_EXTERNAL_LINKS = False, "limit per movie"
CappedInit ==
    /\ web \in CyclicWebs
    /\ NoFiles
    /\ Idle
    /\ page = NoPage
    /\ PROCESS_ALL_EXTERNAL_LINKS = FALSE
    /\ MAX_LINKS_PER_MOVIE \in LinkCaps
    /\ ENABLE_CIRCULAR_REFERENCE_PREVENTION = TRUE
    /\ ENABLE_GLOBAL_DUPLICATE_PREVENTION = TRUE

CappedSpec == CappedInit /\ [][Next]_vars

\* both discovery toggles set to False, on the site whose pages link back
\* to the seed along several paths
TogglesOffInit ==
    /\ web = "diamond"
    /\ NoFiles
    /\ Idle
    /\ page = NoPage
    /\ PROCESS_ALL_EXTERNAL_LINKS = TRUE
    /\ MAX_LINKS_PER_MOVIE = 10
    /\ ENABLE_CIRCULAR_REFERENCE_PREVENTION = FALSE
    /\ ENABLE_GLOBAL_DUPLICATE_PREVENTION = FALSE

\* the process keeps running until it ends or is killed
TogglesOffSpec == TogglesOffInit /\ [][Next]_vars /\ WF_vars(Step)

TypeOK ==
    /\ web \in WebNames
    /\ PROCESS_ALL_EXTERNAL_LINKS \in BOOLEAN
    /\ MAX_LINKS_PER_MOVIE \in Nat
    /\ ENABLE_CIRCULAR_REFERENCE_PREVENTION \in BOOLEAN
    /\ ENABLE_GLOBAL_DUPLICATE_PREVENTION \in BOOLEAN
    /\ phase \in {"idle", "running", "done", "killed"}
    /\ runs \in 0..MaxRuns
    /\ Len(stack) <= MAX_SAFETY_DEPTH + 2

\* ------------------------------------------------------------------------
\* Vocabulary of the properties
\* ------------------------------------------------------------------------
IndexIds(completed_movies) ==
    {completed_movies[k].movie_title : k \in 1..Len(completed_movies)}

\* identifiers given a completion entry by the current run
AddedByRun == IndexIds(completedFile) \ IndexIds(start_completed)

ExtractGets(movie_title) ==
    {k \in 1..Len(http_log) :
        http_log[k].kind = "extract" /\ http_log[k].movie_title = movie_title}

LinkGets(movie_title) ==
    {k \in 1..Len(http_log) :
        http_log[k].kind = "links" /\ http_log[k].movie_title = movie_title}

InTestFile(movie_title) ==
    \E k \in 1..Len(testFile) : testFile[k].movie_title = movie_title

InInfoFile(movie_title) ==
    \E k \in 1..Len(infoFile) :
        infoFile[k].url = search_title(movie_title) /\ infoFile[k].status = "success"

Contains(file, entry) == \E k \in 1..Len(file) : file[k] = entry

Discovered(movie_title) ==
    LET external_links == extract_external_links(web, search_title(movie_title))
    IN  {external_links[k] : k \in 1..Len(external_links)}

\* identifiers reachable from the set by a link path of at most n links
RECURSIVE ReachableWithin(_, _)
ReachableWithin(titles, n) ==
    IF n = 0 THEN titles
    ELSE LET more == titles \cup UNION {Discovered(t) : t \in titles}
         IN  IF more = titles THEN titles ELSE ReachableWithin(more, n - 1)

BudgetLeft == Cardinality(processed_movies) < max_movies

\* ------------------------------------------------------------------------
\* C1
\* ------------------------------------------------------------------------
\* C1 (as stated): when a run with max_movies = K has ended, the completion
\* index holds at most K distinct identifiers.
C1_IndexAtMostK ==
    phase = "done" => Cardinality(IndexIds(completedFile)) <= max_movies

\* C1 (amended): a run with max_movies = K adds at most K distinct
\* identifiers to the completion index; the index itself holds at most K
\* identifiers when it was empty at the start of the run.
C1_AddedAtMostK ==
    /\ Cardinality(AddedByRun) <= max_movies
    /\ start_completed = <<>> => Cardinality(IndexIds(completedFile)) <= max_movies

C1_Witness ==
    /\ phase = "done"
    /\ web = "diamond"
    /\ max_movies = MaxBudget
    /\ Cardinality(AddedByRun) = max_movies
    /\ \E t \in ReachableWithin({start_movie}, MAX_SAFETY_DEPTH) : ~HasEntry(completedFile, t)

\* ------------------------------------------------------------------------
\* C2
\* ------------------------------------------------------------------------
\* C2: in one run get_movie_summary_wikipedia is invoked at most once per
\* identifier; on the graph A->B->A crawled from A with every fetch
\* succeeding, the run fetches A once, then B once, and nothing else.
C2_FetchedOncePerRun ==
    /\ \A k \in 1..Len(http_log) : Cardinality(ExtractGets(http_log[k].movie_title)) <= 1
    /\ (web = "cycle" /\ start_movie = 1 /\ phase = "done" /\ all_ok /\ max_movies >= 2
          /\ start_completed = <<>>)
         => SelectSeq(http_log, LAMBDA get : get.kind = "extract")
              = <<[kind |-> "extract", movie_title |-> 1],
                  [kind |-> "extract", movie_title |-> 2]>>

C2_Witness ==
    /\ web = "cycle" /\ start_movie = 1 /\ phase = "done"
    /\ Cardinality(ExtractGets(1)) = 1
    /\ Cardinality(ExtractGets(2)) = 1
    /\ Cardinality(LinkGets(2)) = 1
    /\ all_ok

\* ------------------------------------------------------------------------
\* C3
\* ------------------------------------------------------------------------
\* C3: a call deeper than MAX_SAFETY_DEPTH never gets past the guards (it
\* fetches nothing and writes nothing), and a run on a linear chain adds
\* at most MAX_SAFETY_DEPTH + 1 completion entries.
C3_DepthLimit ==
    /\ \A k \in 1..Len(stack) :
          stack[k].pc # "call" => stack[k].recursion_depth <= MAX_SAFETY_DEPTH
    /\ web = "chain" => Cardinality(AddedByRun) <= MAX_SAFETY_DEPTH + 1

C3_Witness ==
    /\ web = "chain" /\ phase = "done"
    /\ all_ok
    /\ Cardinality(IndexIds(completedFile)) = MAX_SAFETY_DEPTH + 1
    /\ ~HasEntry(completedFile, MAX_SAFETY_DEPTH + 2)

\* ------------------------------------------------------------------------
\* C4
\* ------------------------------------------------------------------------
\* C4: a run issues no GET, neither for extraction nor for links, for an
\* identifier that the store held as success when the run started.
C4_ResumeNoGet ==
    \A k \in 1..Len(http_log) :
        ~is_movie_completed(start_completed, http_log[k].movie_title)

C4_Witness ==
    /\ prev.phase = "killed" /\ prev.seed = start_movie
    /\ phase = "done"
    /\ is_movie_completed(start_completed, start_movie)

\* ------------------------------------------------------------------------
\* C5
\* ------------------------------------------------------------------------
\* C5: while a call for a discovered identifier is active, the identifier
\* it was discovered from already has its completion entry, its
\* extraction-log entry and its attribute-log record.
C5_PersistedBeforeExpansion ==
    \A k \in 2..Len(stack) :
        LET parent == stack[k - 1].movie_title
        IN  /\ is_movie_completed(completedFile, parent)
            /\ InTestFile(parent)
            /\ InInfoFile(parent)

C5_Witness ==
    /\ Len(stack) >= 2
    /\ Top.pc = "fetch"

\* ------------------------------------------------------------------------
\* C6
\* ------------------------------------------------------------------------
\* C6: no step, the kill and the start-of-run cleanup included, removes an
\* entry from the completion index, the extraction log or the attribute log.
C6_NothingLost ==
    [][ /\ \A k \in 1..Len(completedFile) : Contains(completedFile', completedFile[k])
        /\ \A k \in 1..Len(testFile) : Contains(testFile', testFile[k])
        /\ \A k \in 1..Len(infoFile) : Contains(infoFile', infoFile[k]) ]_vars

C6_Witness ==
    /\ prev.phase = "killed" /\ prev.seed = start_movie
    /\ phase = "running"
    /\ Len(completedFile) > 1
    /\ Len(testFile) > 0
    /\ Len(infoFile) > 0

\* ------------------------------------------------------------------------
\* C7
\* ------------------------------------------------------------------------
\* C7: a started run does not go on for ever: the root call of
\* process_movie_recursive eventually returns (or the process is killed).
C7_Terminates == (phase = "running") ~> (phase = "done" \/ phase = "killed")

C7_Witness ==
    /\ web = "diamond" /\ phase = "done"
    /\ max_movies = MAX_MOVIES
    /\ prev.phase = "idle"
    /\ IndexIds(completedFile) = ReachableWithin({start_movie}, MAX_SAFETY_DEPTH)
    /\ Cardinality(IndexIds(completedFile)) > 3

\* ------------------------------------------------------------------------
\* C8
\* ------------------------------------------------------------------------
\* C8: when a run on an initially empty store has ended with budget left
\* and every fetch succeeded, every identifier reachable from the seed by
\* at most MAX_SAFETY_DEPTH links has a completion entry.
C8_ReachableAllVisited ==
    (phase = "done" /\ start_completed = <<>> /\ all_ok /\ BudgetLeft)
      => \A t \in ReachableWithin({start_movie}, MAX_SAFETY_DEPTH) :
             HasEntry(completedFile, t)

\* ------------------------------------------------------------------------
\* C9
\* ------------------------------------------------------------------------
\* C9: when a run restarted with the same seed after a kill has ended with
\* budget left and every fetch succeeded, the identifiers reachable from
\* the seed (under the depth limit) all have completion entries.
C9_ResumeFinishesTheRest ==
    (phase = "done" /\ prev.phase = "killed" /\ prev.seed = start_movie
       /\ all_ok /\ BudgetLeft)
      => \A t \in ReachableWithin({start_movie}, MAX_SAFETY_DEPTH) :
             HasEntry(completedFile, t)

\* ------------------------------------------------------------------------
\* C10
\* ------------------------------------------------------------------------
\* C10: the already-in-index check aborts the call exactly when the index
\* holds the identifier with status success; an identifier held as failed
\* or error passes the check.
C10_AbortsIffSuccess ==
    guard_log.movie_title # 0 => (guard_log.aborted <=> guard_log.status = "success")

\* ------------------------------------------------------------------------
\* C11
\* ------------------------------------------------------------------------
\* C11: whatever happened to the links already handled, a caller goes
\* through its whole link list: every link it is past has been processed,
\* or was cut by the budget or the depth limit; and every caller with an
\* active child keeps its completion entry with status success.
Handled(f, isTop) ==
    IF f.pc = "return" THEN Len(f.external_links)
    ELSE IF f.pc = "loop" THEN (IF isTop THEN f.i - 1 ELSE f.i - 2)
    ELSE 0

C11_FailureIsolated ==
    /\ \A k \in 1..Len(stack) :
         \A j \in 1..Handled(stack[k], k = Len(stack)) :
            \/ stack[k].external_links[j] \in processed_movies
            \/ ~BudgetLeft
            \/ stack[k].recursion_depth + 1 > MAX_SAFETY_DEPTH
    /\ \A k \in 1..(Len(stack) - 1) :
         StatusInIndex(completedFile, stack[k].movie_title) = "success"

C11_Witness ==
    /\ web = "diamond"
    /\ Len(stack) = 2
    /\ stack[1].movie_title = 1
    /\ Top.movie_title = 3 /\ Top.pc = "fetch"
    /\ \E k \in 1..Len(testFile) :
          testFile[k].movie_title = 2 /\ testFile[k].extraction_status # "success"

\* ------------------------------------------------------------------------
\* C16
\* ------------------------------------------------------------------------
\* C16: after a non-200 response or a transport failure the returned record
\* has status error and the completion entry written has status error.
HttpFailed(result) == result.error \in {"Failed to fetch page", "Request failed"}

C16_HttpFailureIsError ==
    \A k \in 1..Len(stack) :
        HttpFailed(stack[k].result)
          => /\ stack[k].result.status = "error"
             /\ StatusInIndex(completedFile, stack[k].movie_title) = "error"

\* ------------------------------------------------------------------------
\* C17
\* ------------------------------------------------------------------------
\* C17: when an exception reaches the except branch, the completion entry
\* persisted for the identifier has status error.
C17_ExceptionIsError ==
    \A k \in 1..Len(stack) :
        stack[k].result = error_data
          => StatusInIndex(completedFile, stack[k].movie_title) = "error"

\* ------------------------------------------------------------------------
\* C19
\* ------------------------------------------------------------------------
\* C19: a seed whose page has no Plot section is recorded as failed in the
\* completion index and in the extraction log, its record has no
\* plot_summary key, it adds nothing to the attribute log, and no link of
\* it is fetched or expanded.
NoPlot(f) == f.result.error = "Plot section not found or empty."

C19_NoPlotState ==
    \A k \in 1..Len(stack) :
        NoPlot(stack[k])
          => /\ k = Len(stack)
             /\ stack[k].result.status # "success"
             /\ "plot_summary" \notin stack[k].result.keys
             /\ StatusInIndex(completedFile, stack[k].movie_title) = "failed"
             /\ stack[k].pc \in {"test_result", "movie_info", "return"}
             /\ LinkGets(stack[k].movie_title) = {}
             /\ stack[k].pc # "test_result"
                  => \E j \in 1..Len(testFile) :
                        /\ testFile[j].movie_title = stack[k].movie_title
                        /\ testFile[j].extraction_status = "failed"

C19_NoPlotStep ==
    (Running /\ NoPlot(Top))
      => /\ infoFile' = infoFile
         /\ Len(stack') <= Len(stack)

TestEntries(movie_title) ==
    {k \in 1..Len(testFile) : testFile[k].movie_title = movie_title}

C20_LogsState ==
    /\ \A k \in 1..Len(infoFile) : infoFile[k].status = "success"
    /\ \A k \in 1..Len(stack) :
         /\ stack[k].pc \in {"movie_info", "links", "loop", "return"}
              => Cardinality(TestEntries(stack[k].movie_title)) = 1
         /\ stack[k].pc \in {"fetch", "test_result", "error_result"}
              => TestEntries(stack[k].movie_title) = {}

C20_LogsStep ==
    infoFile' # infoFile
      => /\ Running /\ Top.result.status = "success"
         /\ Len(infoFile') = Len(infoFile) + 1

C20_AttributeLogOnlySuccess == []C20_LogsState /\ [][C20_LogsStep]_vars

C20_Witness ==
    /\ Len(infoFile) = 1
    /\ Len(testFile) = 3
    /\ \E k \in 1..Len(testFile) : testFile[k].extraction_status = "error"
    /\ \E k \in 1..Len(testFile) : testFile[k].extraction_status = "failed"

\* ------------------------------------------------------------------------
\* C12
\* ------------------------------------------------------------------------
LastCall == call_log[Len(call_log)]

Saved == call_log # <<>> /\ LastCall.op = "save_completed_movie"

Asked == call_log # <<>> /\ LastCall.op = "is_movie_completed"

\* C12: the index never holds two entries for one identifier; a save for an
\* identifier already present changes that entry where it stands and
\* nothing else, and a save for a new identifier appends exactly one entry.
C12_OneEntryPerIdentifier ==
    /\ \A a, b \in 1..Len(completedFile) :
          completedFile[a].movie_title = completedFile[b].movie_title => a = b
    /\ Saved =>
         LET before == LastCall.before
             present == LastCall.movie_title \in IndexIds(before)
         IN  /\ Len(completedFile) = Len(before) + (IF present THEN 0 ELSE 1)
             /\ completedFile[Len(completedFile)].movie_title = LastCall.movie_title
                  \/ present
             /\ \A k \in 1..Len(before) :
                   /\ completedFile[k].movie_title = before[k].movie_title
                   /\ before[k].movie_title # LastCall.movie_title
                        => completedFile[k] = before[k]

C12_Witness ==
    /\ Saved
    /\ Len(completedFile) = 3
    /\ LastCall.before[1].movie_title = LastCall.movie_title
    /\ LastCall.before[1].status = "failed"
    /\ completedFile[1].status = "success"

\* ------------------------------------------------------------------------
\* C13
\* ------------------------------------------------------------------------
\* C13: a second save with the same identifier and the same record leaves
\* the entries (identifier, status, error) as the first save left them.
SavedTwice ==
    /\ Len(call_log) = 2
    /\ call_log[1].op = "save_completed_movie"
    /\ call_log[2].op = "save_completed_movie"
    /\ call_log[1].movie_title = call_log[2].movie_title
    /\ call_log[1].movie_data = call_log[2].movie_data

C13_SaveIdempotent == SavedTwice => completedFile = call_log[2].before

C13_Witness ==
    /\ SavedTwice
    /\ Len(completedFile) = 2
    /\ call_log[1].before # call_log[2].before

\* ------------------------------------------------------------------------
\* C14
\* ------------------------------------------------------------------------
\* C14: is_movie_completed answers true exactly for the identifiers held in
\* the index with status success: false for an identifier without entry
\* and false for one whose entry is not success.
SuccessIds(completed_movies) ==
    {m.movie_title : m \in {completed_movies[k] : k \in 1..Len(completed_movies)}
                               \cap [movie_title : StoreTitles, status : {"success"},
                                     error : {None}]}

C14_CompletedIffSuccess ==
    Asked => (LastCall.returned <=> LastCall.movie_title \in SuccessIds(LastCall.before))

C14_Witness ==
    /\ Asked
    /\ ~LastCall.returned
    /\ LastCall.movie_title \in IndexIds(completedFile)
    /\ SuccessIds(completedFile) # {}

\* ------------------------------------------------------------------------
\* C15
\* ------------------------------------------------------------------------
\* C15: a call of is_movie_completed changes no file, and two calls in a
\* row for the same identifier return the same boolean.
AskedTwice ==
    /\ Len(call_log) = 2
    /\ call_log[1].op = "is_movie_completed"
    /\ call_log[2].op = "is_movie_completed"
    /\ call_log[1].movie_title = call_log[2].movie_title

C15_AskStep ==
    (call_log' # call_log /\ call_log'[Len(call_log')].op = "is_movie_completed")
       => store' = store

C15_CheckIsReadOnly ==
    [](AskedTwice => call_log[1].returned = call_log[2].returned)
      /\ [][C15_AskStep]_vars

C15_Witness ==
    /\ AskedTwice
    /\ call_log[2].returned
    /\ Len(completedFile) > 1

\* ------------------------------------------------------------------------
\* C18: a record returned by get_movie_summary_wikipedia with status success
\* has a non-empty plot_summary, which holds a character that is not
\* whitespace; the page then has a Plot section with a paragraph that is not
\* empty after reference-marker and whitespace cleanup.
\* ------------------------------------------------------------------------
PlotParagraphs(soup) ==
    {k \in 1..Len(soup.paragraphs) :
        /\ find_plot_h2(soup) # 0
        /\ soup.paragraphs[k].previous_h2 = find_plot_h2(soup)}

EmptyAfterCleanup(nodes) ==
    LET text == get_text(nodes)
        kept == sub_references(text, 1)
    IN  \A k \in 1..Len(kept) : kept[k] \in Whitespace

C18_SuccessHasPlot ==
    extraction.record.status = "success" =>
        /\ extraction.plot_summary # <<>>
        /\ \E k \in 1..Len(extraction.plot_summary) :
               extraction.plot_summary[k] \notin Whitespace
        /\ \E k \in PlotParagraphs(page) : ~EmptyAfterCleanup(page.paragraphs[k].nodes)

\* a success on a page whose Plot paragraph carried a reference marker
C18_Witness ==
    /\ extraction.record.status = "success"
    /\ "plot_summary" \in extraction.record.keys
    /\ \E k \in PlotParagraphs(page) :
           LET text == get_text(page.paragraphs[k].nodes)
           IN  sub_references(text, 1) # text

\* ------------------------------------------------------------------------
\* C21, C22
\* ------------------------------------------------------------------------
\* a call that marked its identifier and has only its return statement left
AboutToReturn(f) == f.pc \in {"return", "skipped"}

\* C21: when a call of process_movie_recursive that added its identifier to
\* branch-visited returns, by whichever path, the identifier is no longer in
\* that call's branch-visited set.
C21_RemovedOnEveryReturn ==
    \A k \in 1..Len(stack) :
        AboutToReturn(stack[k])
          => stack[k].movie_title \notin stack[k].visited_in_current_branch

\* identifiers of the calls from the seed down to the k-th
PathTo(k) == {stack[j].movie_title : j \in 1..k}

C22_BranchState ==
    \A k \in 1..Len(stack) :
        LET f == stack[k]
        IN  /\ f.pc = "call" => f.visited_in_current_branch = PathTo(k - 1)
            /\ f.pc \notin {"call", "return"} => f.visited_in_current_branch = PathTo(k)

C22_BranchStep ==
    \A k \in 1..Len(stack) :
        (k < Len(stack) /\ k <= Len(stack'))
          => stack'[k].visited_in_current_branch = stack[k].visited_in_current_branch

\* C22: the branch-visited set of a call is its own: no step of a call
\* changes the set of a caller below it while the process lives, a call
\* receives the set of its caller, and once past the guards its set is
\* exactly the identifiers on the path from the seed to it.
C22_BranchIsPrivate == []C22_BranchState /\ [][C22_BranchStep]_vars

\* a second link of the seed is being processed after the first has returned
C22_Witness ==
    /\ phase = "running"
    /\ Len(stack) = 2
    /\ stack[1].i = 3
    /\ stack[2].pc = "fetch"
    /\ stack[2].visited_in_current_branch = {stack[1].movie_title, stack[2].movie_title}

\* ------------------------------------------------------------------------
\* C23
\* ------------------------------------------------------------------------
SameRun == phase = "running" /\ phase' \in {"running", "done"} /\ runs' = runs

C23_GrowStep ==
    SameRun => /\ global_visited \subseteq global_visited'
               /\ processed_movies \subseteq processed_movies'
               /\ Cardinality(processed_movies) <= Cardinality(processed_movies')

C23_WithinBudget ==
    (phase \in {"running", "done"} /\ max_movies >= 1)
      => Cardinality(processed_movies) <= max_movies

\* C23: within one crawl run no step removes an identifier from the
\* global-visited set or from the processed set, the processed count never
\* decreases, and it never exceeds max_movies when max_movies >= 1.
C23_TrackingSetsGrow == []C23_WithinBudget /\ [][C23_GrowStep]_vars

\* the budget of two is used up
C23_Witness ==
    /\ phase = "running"
    /\ max_movies = 2
    /\ Cardinality(processed_movies) = 2
    /\ Cardinality(global_visited) = 2

\* ------------------------------------------------------------------------
\* C24, C25
\* ------------------------------------------------------------------------
NoDuplicate(external_links) ==
    \A i, j \in 1..Len(external_links) :
        external_links[i] = external_links[j] => i = j

NoReserved(external_links) ==
    \A i \in 1..Len(external_links) : external_links[i] # 0

\* the list items of the section whose link points at the identifier
Occurrences(movie_title) ==
    {k \in 1..Len(page.items) :
        page.items[k].kind = "wiki" /\ page.items[k].movie_title = movie_title}

\* those of them whose link text passes is_valid_external_link
AcceptedOccurrences(movie_title) ==
    {k \in Occurrences(movie_title) : IsCandidate(page.items[k])}

First(S) == CHOOSE k \in S : \A j \in S : k <= j

\* C24 as stated: the list returned by extract_external_links has no
\* duplicate, no identifier of a reserved namespace, and its identifiers are
\* in the order of their first occurrence in the External links section.
C24_FirstOccurrenceOrder ==
    LET external_links == extraction.external_links
    IN  /\ NoDuplicate(external_links)
        /\ NoReserved(external_links)
        /\ \A i, j \in 1..Len(external_links) :
               i < j => /\ Occurrences(external_links[i]) # {}
                        /\ Occurrences(external_links[j]) # {}
                        /\ First(Occurrences(external_links[i]))
                             < First(Occurrences(external_links[j]))

\* C24 amended: the list returned by extract_external_links has no
\* duplicate, no identifier of a reserved namespace, and its identifiers are
\* in the order of their first occurrence among the links of the section
\* whose text passes is_valid_external_link.
C24_FirstAcceptedOrder ==
    LET external_links == extraction.external_links
    IN  /\ NoDuplicate(external_links)
        /\ NoReserved(external_links)
        /\ \A i \in 1..Len(external_links) :
               AcceptedOccurrences(external_links[i]) # {}
        /\ \A i, j \in 1..Len(external_links) :
               i < j => First(AcceptedOccurrences(external_links[i]))
                          < First(AcceptedOccurrences(external_links[j]))

\* an identifier whose first link is rejected for its text is listed after
\* an identifier linked later
C24_Witness ==
    /\ extraction.external_links = <<2, 1>>
    /\ Cardinality(Occurrences(1)) = 2
    /\ First(Occurrences(1)) < First(Occurrences(2))

NavLabels == {nav_elements[k] : k \in 1..Len(nav_elements)}

\* C25: is_valid_external_link rejects a link text exactly when the trimmed
\* text is a navigation label or has fewer than two characters.
C25_DenylistAndLength ==
    \A k \in 1..Len(extraction.link_texts) :
        LET text_stripped == strip(extraction.link_texts[k].text)
        IN  ~extraction.link_texts[k].valid
              <=> (text_stripped \in NavLabels \/ Len(text_stripped) < 2)

\* ------------------------------------------------------------------------
\* C26
\* ------------------------------------------------------------------------
\* C26: no attribute key of an extracted record is present with an
\* empty-string or empty-list value.
C26_NoEmptyAttribute ==
    \A field \in DOMAIN extraction.details : extraction.details[field] # <<>>

\* ------------------------------------------------------------------------
\* C27
\* ------------------------------------------------------------------------
\* positions of the text inside a bracketed numeral: "[", optional
\* whitespace, digits, optional whitespace, "]"
InMarker(text, k) ==
    \E i \in 1..k, j \in k..Len(text) :
        /\ text[i] = "[" /\ text[j] = "]"
        /\ \E d \in (i + 1)..(j - 1) : text[d] \in Digits
        /\ \A m \in (i + 1)..(j - 1) : text[m] \in Digits \cup Whitespace
        /\ \A m, n \in (i + 1)..(j - 1) :
               (m < n /\ text[m] \in Digits /\ text[n] \in Digits)
                 => \A q \in m..n : text[q] \in Digits

RECURSIVE WithoutMarkers(_, _)
WithoutMarkers(text, k) ==
    IF k > Len(text) THEN <<>>
    ELSE (IF InMarker(text, k) THEN <<>> ELSE <<text[k]>>) \o WithoutMarkers(text, k + 1)

\* the words of a text: its maximal runs of characters that are not whitespace
RECURSIVE Words(_, _, _)
Words(text, k, word) ==
    IF k > Len(text) THEN (IF word = <<>> THEN <<>> ELSE <<word>>)
    ELSE IF text[k] \in Whitespace
         THEN (IF word = <<>> THEN <<>> ELSE <<word>>) \o Words(text, k + 1, <<>>)
    ELSE Words(text, k + 1, Append(word, text[k]))

RECURSIVE JoinWith(_, _)
JoinWith(separator, texts) ==
    IF texts = <<>> THEN <<>>
    ELSE IF Len(texts) = 1 THEN texts[1]
    ELSE texts[1] \o <<separator>> \o JoinWith(separator, Tail(texts))

\* a paragraph with its markers removed and its whitespace collapsed
Cleaned(nodes) == JoinWith(" ", Words(WithoutMarkers(get_text(nodes), 1), 1, <<>>))

RECURSIVE PlotLines(_, _)
PlotLines(soup, k) ==
    IF k > Len(soup.paragraphs) THEN <<>>
    ELSE (IF k \in PlotParagraphs(soup) /\ Cleaned(soup.paragraphs[k].nodes) # <<>>
          THEN <<Cleaned(soup.paragraphs[k].nodes)>> ELSE <<>>)
           \o PlotLines(soup, k + 1)

\* C27: the plot summary of a success record is the non-empty paragraphs of
\* the Plot section in document order, each with its bracketed-numeral
\* markers removed and its whitespace collapsed, joined by single line
\* breaks, with no line break at either end.
C27_PlotSummaryIsJoinedParagraphs ==
    extraction.record.status = "success" =>
        /\ extraction.plot_summary = JoinWith("\n", PlotLines(page, 1))
        /\ extraction.plot_summary[1] # "\n"
        /\ extraction.plot_summary[Len(extraction.plot_summary)] # "\n"

\* two paragraphs, the first with a marker, give two lines
C27_Witness ==
    /\ extraction.record.status = "success"
    /\ extraction.plot_summary = <<"a", "\n", "a">>
    /\ \E k \in PlotParagraphs(page) :
           \E m \in 1..Len(get_text(page.paragraphs[k].nodes)) :
               InMarker(get_text(page.paragraphs[k].nodes), m)

\* ------------------------------------------------------------------------
\* C28
\* ------------------------------------------------------------------------
\* every entry ever added, oldest first
AllAdded ==
    IF call_log = <<>> THEN historyFile
    ELSE call_log[1].before
           \o [k \in 1..Len(call_log) |->
                 [movie_title |-> call_log[k].movie_title,
                  external_links |-> call_log[k].external_links,
                  depth |-> 0,
                  link_count |-> Len(call_log[k].external_links)]]

LastOf(entries, n) ==
    IF Len(entries) <= n THEN entries
    ELSE [k \in 1..n |-> entries[Len(entries) - n + k]]

\* C28: after any sequence of add_to_external_links_history calls the
\* history holds at most MAX_HISTORY_LINKS entries, and they are the most
\* recently added ones in the order they were added.
C28_HistoryIsMostRecent ==
    /\ Len(historyFile) <= MAX_HISTORY_LINKS
    /\ historyFile = LastOf(AllAdded, MAX_HISTORY_LINKS)

\* two calls on a full history: the two oldest entries are gone
C28_Witness ==
    /\ Len(call_log) = 2
    /\ Len(AllAdded) = MAX_HISTORY_LINKS + 2
    /\ Len(historyFile) = MAX_HISTORY_LINKS
    /\ historyFile[1].external_links = <<3>>
    /\ historyFile[MAX_HISTORY_LINKS].movie_title = call_log[2].movie_title

\* ------------------------------------------------------------------------
\* C29
\* ------------------------------------------------------------------------
\* the root call of the first run, before its guards
FirstRootCall ==
    /\ Running /\ runs = 1
    /\ Len(stack) = 1 /\ Top.pc = "call"

C29_LoadState ==
    (runs = 0 \/ FirstRootCall) => load_completed_movies = <<>>

C29_RootStep ==
    (FirstRootCall /\ max_movies >= 1 /\ phase' = "running")
      => /\ Len(stack') = 1
         /\ stack'[1].pc = "fetch"
         /\ stack'[1].movie_title = start_movie

\* C29: on a store whose completion file is missing or does not parse,
\* load_completed_movies returns the empty sequence, and the first crawl run
\* goes on to fetch its seed: it neither stops nor takes the seed for
\* completed.
C29_DamagedIndexIsEmpty == []C29_LoadState /\ [][C29_RootStep]_vars

\* the seed that the damaged file seems to list is being fetched
C29_Witness ==
    /\ runs = 1
    /\ COMPLETED_MOVIES_FILE \in unreadable
    /\ completedFile = Remains
    /\ Len(stack) = 1
    /\ Top.pc = "fetch"
    /\ Top.movie_title = 1

\* ------------------------------------------------------------------------
\* C30
\* ------------------------------------------------------------------------
IsPrefixOrOneMore(old, new) ==
    /\ Len(new) \in {Len(old), Len(old) + 1}
    /\ \A k \in 1..Len(old) : new[k] = old[k]

C30_LogStep ==
    phase = "running"
      => /\ IsPrefixOrOneMore(testFile, testFile')
         /\ IsPrefixOrOneMore(infoFile, infoFile')

\* a call past its save blocks has its entries in the logs, although the
\* logs did not exist when the first run started
C30_LogState ==
    \A k \in 1..Len(stack) :
        /\ stack[k].pc \in {"movie_info", "links", "loop", "return"}
             => InTestFile(stack[k].movie_title)
        /\ stack[k].pc \in {"links", "loop"}
             => InInfoFile(stack[k].movie_title)

\* C30: every write of process_movie_recursive to the extraction log or to
\* the attribute log keeps the previous contents as a prefix and adds one
\* entry at the end, and a log that does not exist yet is written as if it
\* were empty.
C30_LogsAppendOnly == []C30_LogState /\ [][C30_LogStep]_vars

\* both logs have grown from nothing to two entries
C30_Witness ==
    /\ phase = "running"
    /\ runs = 1
    /\ Len(testFile) = 2
    /\ Len(infoFile) = 2

\* ------------------------------------------------------------------------
\* C31
\* ------------------------------------------------------------------------
\* the GETs of the current run that name the identifier, of either kind
GetsOf(movie_title) == ExtractGets(movie_title) \cup LinkGets(movie_title)

C31_GetsState ==
    \A k \in 1..Len(http_log) :
        LET movie_title == http_log[k].movie_title
        IN  /\ Cardinality(ExtractGets(movie_title)) <= 1
            /\ Cardinality(LinkGets(movie_title)) <= 1
            /\ http_log[k].kind = "links"
                 => /\ \E j \in 1..(k - 1) :
                          http_log[j] = [kind |-> "extract", movie_title |-> movie_title]
                    /\ StatusInIndex(completedFile, movie_title) = "success"
            /\ StatusInIndex(completedFile, movie_title) # "success"
                 => Cardinality(GetsOf(movie_title)) = 1

C31_GetStep ==
    (phase = "running" /\ phase' = "running" /\ Len(http_log') > Len(http_log))
      => LET get == http_log'[Len(http_log')]
         IN  /\ Len(http_log') = Len(http_log) + 1
             /\ GetsOf(get.movie_title) = IF get.kind = "links"
                                          THEN ExtractGets(get.movie_title)
                                          ELSE {}
             /\ get.kind = "links"
                  => /\ Top.result.status = "success"
                     /\ StatusInIndex(completedFile, get.movie_title) = "success"

\* C31: in a run the link-discovery GET of an identifier is issued at most
\* once, after the extraction GET of that identifier returned success and
\* the completion entry was written; an identifier whose extraction did not
\* succeed gets exactly one GET in the run, and no GET is issued again.
C31_LinkGetAfterSuccess == []C31_GetsState /\ [][C31_GetStep]_vars

\* a run in which one identifier got both GETs and another, whose
\* extraction failed, got one
C31_Witness ==
    /\ phase = "done"
    /\ \E a, b \in Pages :
         /\ Cardinality(ExtractGets(a)) = 1 /\ Cardinality(LinkGets(a)) = 1
         /\ StatusInIndex(completedFile, a) = "success"
         /\ Cardinality(ExtractGets(b)) = 1 /\ LinkGets(b) = {}
         /\ StatusInIndex(completedFile, b) = "failed"

\* ------------------------------------------------------------------------
\* C32
\* ------------------------------------------------------------------------
\* C32: for every successfully processed identifier, the record appended to
\* the attribute log and the entry appended to the extraction log carry the
\* identifier of its completion entry as their movie_title, whatever title
\* the page declares.
C32_SameIdentifierInLogs ==
    \A k \in 1..Len(stack) :
        (stack[k].pc \in {"links", "loop"} /\ stack[k].result.status = "success")
          => LET movie_title == stack[k].movie_title
             IN  /\ StatusInIndex(completedFile, movie_title) = "success"
                 /\ \E j \in 1..Len(testFile) :
                        /\ testFile[j].movie_title = movie_title
                        /\ testFile[j].extraction_status = "success"
                 /\ \E j \in 1..Len(infoFile) :
                        /\ infoFile[j].url = search_title(movie_title)
                        /\ infoFile[j].movie_title = movie_title

\* ------------------------------------------------------------------------
\* C33
\* ------------------------------------------------------------------------
\* the other pages whose links name the identifier (the item of the page
\* itself is in the processed set when its own loop runs)
DiscoverersOf(link_movie) == {u \in Pages \ {link_movie} : link_movie \in Discovered(u)}

\* identifiers processed in the run that only the page links to: each got
\* its call from the loop of the page's item
ExpandedFrom(u) ==
    {link_movie \in processed_movies \ {start_movie} : DiscoverersOf(link_movie) = {u}}

\* C33: with PROCESS_ALL_EXTERNAL_LINKS False at most MAX_LINKS_PER_MOVIE
\* discovered identifiers are expanded per processed item (with it True
\* every discovered identifier is a candidate).
C33_LinkCapHonoured ==
    (~PROCESS_ALL_EXTERNAL_LINKS /\ start_movie \in Pages)
      => \A u \in processed_movies :
             Cardinality(ExpandedFrom(u)) <= MAX_LINKS_PER_MOVIE

\* ------------------------------------------------------------------------
\* C34
\* ------------------------------------------------------------------------
C34_DepthStep ==
    phase = "running"
      => /\ Len(testFile') > Len(testFile)
              => testFile'[Len(testFile')].depth = Top.recursion_depth
         /\ historyFile' # historyFile
              => historyFile'[Len(historyFile')].depth = Top.recursion_depth

\* C34: the depth stored in an extraction log entry and in an
\* external-links-history entry is the recursion depth of the call that
\* wrote it: 0 for the seed, the parent's depth + 1 for a discovered
\* identifier.
C34_StoredDepthIsRecursionDepth == [][C34_DepthStep]_vars

\* ------------------------------------------------------------------------
\* C35
\* ------------------------------------------------------------------------
\* extraction GETs of the current run that request the page
ExtractGetsOfUrl(u) ==
    {k \in 1..Len(http_log) :
        http_log[k].kind = "extract" /\ search_title(http_log[k].movie_title) = u}

\* completion entries added by the current run whose identifier requests
\* the page
EntriesOfUrl(u) ==
    {k \in 1..Len(completedFile) :
        /\ search_title(completedFile[k].movie_title) = u
        /\ completedFile[k].movie_title \in AddedByRun}

\* C35: identifiers that differ only in space versus underscore request the
\* same page and are one item: in a run the page is fetched for extraction
\* at most once and gets a single completion entry.
C35_OneItemPerRequestPath ==
    \A u \in Pages :
        /\ Cardinality(ExtractGetsOfUrl(u)) <= 1
        /\ Cardinality(EntriesOfUrl(u)) <= 1

\* ------------------------------------------------------------------------
\* C36
\* ------------------------------------------------------------------------
\* C36: the list runner adds a record to moviesInfoData.json only for a
\* movie whose extraction returned status success; failed and error
\* attempts go to the extraction log and the completion index only.
C36_ListRecordsOnlySuccess ==
    \A k \in 1..Len(infoFile) : infoFile[k].status = "success"

\* ------------------------------------------------------------------------
\* C37
\* ------------------------------------------------------------------------
\* the identifier of the call has been marked before: the call is a revisit
IsRevisit(f) ==
    \/ f.movie_title \in processed_movies
    \/ f.movie_title \in global_visited
    \/ f.movie_title \in f.visited_in_current_branch

\* the guard whose "return []" ends the call, in the order of the code
FiringGuard(f) ==
    CASE DepthGuard(f.recursion_depth) -> "depth"
      [] ~DepthGuard(f.recursion_depth) /\ GlobalVisitedGuard(f.movie_title) -> "global_visited"
      [] ~DepthGuard(f.recursion_depth) /\ ~GlobalVisitedGuard(f.movie_title)
           /\ BudgetGuard(processed_movies, max_movies) -> "budget"
      [] ~DepthGuard(f.recursion_depth) /\ ~GlobalVisitedGuard(f.movie_title)
           /\ ~BudgetGuard(processed_movies, max_movies)
           /\ BranchGuard(f.movie_title, f.visited_in_current_branch) -> "branch"
      [] ~DepthGuard(f.recursion_depth) /\ ~GlobalVisitedGuard(f.movie_title)
           /\ ~BudgetGuard(processed_movies, max_movies)
           /\ ~BranchGuard(f.movie_title, f.visited_in_current_branch)
           /\ DuplicateGuard(f.movie_title) -> "duplicate"
      [] OTHER -> None

\* the loop of a call is at a discovered identifier that was marked before
AtRevisit ==
    /\ Running /\ Top.pc = "loop"
    /\ Top.i <= Len(Top.external_links)
    /\ Top.external_links[Top.i] \in processed_movies

C37_SetsState ==
    phase \in {"running", "done"}
      => /\ processed_movies = global_visited
         /\ \A k \in 1..Len(stack) :
              /\ stack[k].visited_in_current_branch \subseteq processed_movies
              /\ stack[k].pc = "call"
                   => FiringGuard(stack[k]) \notin {"branch", "duplicate"}

\* the revisit gets its call, which the global-visited guard then ends
C37_RevisitStep ==
    (AtRevisit /\ phase' = "running")
      => /\ Len(stack') = Len(stack) + 1
         /\ stack'[Len(stack')].pc = "call"
         /\ stack'[Len(stack')].movie_title = Top.external_links[Top.i]
         /\ GlobalVisitedGuard(Top.external_links[Top.i])

\* C37 (as stated): in a run started by test_multiple_movies the processed
\* set and the global-visited set hold the same identifiers and every
\* call's branch-visited set is a subset of them; every revisit that is
\* pruned is pruned by the global-visited guard, and the branch guard and
\* the duplicate guard are never the guard that fires.
C37_RevisitsPrunedByGlobalVisited == []C37_SetsState /\ [][C37_RevisitStep]_vars

\* the revisit is passed over by the loop test and gets no call
C37_PassedOverStep ==
    (AtRevisit /\ phase' = "running")
      => /\ Len(stack') = Len(stack)
         /\ stack'[Len(stack')].pc = "loop"
         /\ stack'[Len(stack')].i = Top.i + 1
         /\ UNCHANGED <<store, processed_movies, global_visited, http_log>>

C37_NoRevisitAtGuards ==
    \A k \in 1..Len(stack) :
        stack[k].pc = "call"
          => /\ ~IsRevisit(stack[k])
             /\ FiringGuard(stack[k]) \in {"depth", "budget", None}

\* C37 (amended): the processed set and the global-visited set hold the same
\* identifiers and every call's branch-visited set is a subset of them; a
\* discovered identifier that was marked before is passed over by the test
\* of the loop and gets no call, so no call at its guards is a revisit and
\* none of the global-visited, branch and duplicate guards is the guard
\* that fires.
C37_RevisitsPrunedByLoopTest ==
    /\ []C37_SetsState
    /\ []C37_NoRevisitAtGuards
    /\ [][C37_PassedOverStep]_vars

\* the call for 2 on the cycle has passed over its link back to the seed:
\* both shared sets hold the two identifiers and so does its branch set
C37_Witness ==
    /\ phase = "running"
    /\ Len(stack) = 2
    /\ Top.pc = "loop" /\ Top.i = 2
    /\ Top.external_links[1] = stack[1].movie_title
    /\ processed_movies = {stack[1].movie_title, Top.movie_title}
    /\ global_visited = processed_movies
    /\ Top.visited_in_current_branch = processed_movies

\* ------------------------------------------------------------------------
\* C38
\* ------------------------------------------------------------------------
TogglesOff ==
    /\ ~ENABLE_CIRCULAR_REFERENCE_PREVENTION
    /\ ~ENABLE_GLOBAL_DUPLICATE_PREVENTION

\* no identifier has been fetched twice in the run, and a call for an
\* identifier in global_visited ends at the guards whatever the toggles say
C38_NoRefetch ==
    TogglesOff
      => /\ \A k \in 1..Len(http_log) :
              Cardinality(ExtractGets(http_log[k].movie_title)) <= 1
         /\ \A k \in 1..Len(stack) :
              (stack[k].pc = "call" /\ stack[k].movie_title \in global_visited)
                => Guards(stack[k])
         /\ \A k \in 1..Len(stack) :
              stack[k].pc = "call"
                => ~BranchGuard(stack[k].movie_title, stack[k].visited_in_current_branch)
                   /\ ~DuplicateGuard(stack[k].movie_title)

\* C38: with ENABLE_CIRCULAR_REFERENCE_PREVENTION and
\* ENABLE_GLOBAL_DUPLICATE_PREVENTION both False, a crawl run on a cyclic
\* link graph still fetches no identifier more than once and still comes to
\* its end.
C38_TogglesOffStillSafe ==
    /\ []C38_NoRefetch
    /\ (TogglesOff /\ phase = "running") ~> (phase = "done" \/ phase = "killed")

\* with both toggles False the crawl of the diamond from 1 has ended: each
\* of the four pages was fetched once, the links of 3 and 4 back to the
\* seed and the second link to 4 were found
C38_Witness ==
    /\ TogglesOff
    /\ web = "diamond" /\ start_movie = 1 /\ phase = "done"
    /\ processed_movies = {1, 2, 3, 4}
    /\ \A u \in processed_movies :
           Cardinality(ExtractGets(u)) = 1 /\ Cardinality(LinkGets(u)) = 1
    /\ all_ok

\* ------------------------------------------------------------------------
\* C39
\* ------------------------------------------------------------------------
\* C39: when a crawl run has ended, also a run started after the previous
\* one was killed between two file writes, every identifier whose
\* completion entry has status success has its record in the attribute log.
C39_SuccessHasRecordAtEnd ==
    phase = "done"
      => \A k \in 1..Len(completedFile) :
             completedFile[k].status = "success"
               => \E j \in 1..Len(infoFile) :
                      /\ infoFile[j].url = search_title(completedFile[k].movie_title)
                      /\ infoFile[j].status = "success"

\* ------------------------------------------------------------------------
\* C40
\* ------------------------------------------------------------------------
\* the step is the second GET of the call on top
IsLinkGet ==
    /\ Running /\ Top.pc = "links"
    /\ http_log' = Append(http_log, [kind |-> "links", movie_title |-> Top.movie_title])

\* the second GET of the step did not give a 200 response: it is the first
\* request of the run to fail, or the page has links and the call got none
LinkGetFailed ==
    /\ IsLinkGet
    /\ \/ all_ok /\ ~all_ok'
       \/ /\ Discovered(Top.movie_title) # {}
          /\ stack'[Len(stack')].external_links = <<>>

C40_FailedLinkGetStep ==
    LinkGetFailed
      => /\ UNCHANGED <<store, processed_movies, global_visited>>
         /\ StatusInIndex(completedFile', Top.movie_title) = "success"
         /\ InInfoFile(Top.movie_title)'
         /\ phase' = "running"
         /\ Len(stack') = Len(stack)
         /\ stack'[Len(stack')].pc = "return"
         /\ stack'[Len(stack')].external_links = <<>>
         /\ \A k \in 1..(Len(stack) - 1) : stack'[k] = stack[k]

\* the call returns to its caller and nothing else happens
C40_ReturnStep ==
    (Running /\ Top.pc = "return" /\ phase' = "running")
      => /\ stack' = SubSeq(stack, 1, Len(stack) - 1)
         /\ UNCHANGED <<store, processed_movies, global_visited, http_log>>

\* a call has a callee only from its loop, and its loop index is already at
\* the link after the callee's
C40_CallerState ==
    \A k \in 1..(Len(stack) - 1) :
        /\ stack[k].pc = "loop"
        /\ stack[k].i >= 2
        /\ stack[k].external_links[stack[k].i - 1] = stack[k + 1].movie_title

\* C40: when the link-discovery GET of a successfully extracted identifier
\* returns non-200 or raises, the completion entry stays success, the
\* attribute-log record stays in place, the call has no links and expands
\* no child, and it returns to its caller, whose loop goes on with the next
\* discovered identifier.
C40_LinkFailureIsContained ==
    /\ []C40_CallerState
    /\ [][C40_FailedLinkGetStep]_vars
    /\ [][C40_ReturnStep]_vars

\* on the diamond the second GET of 2 failed, the call for 2 returned with
\* no child, and the seed's loop has gone on to its later link 3
C40_Witness ==
    /\ web = "diamond" /\ start_movie = 1
    /\ Len(stack) = 2
    /\ Top.movie_title = 3
    /\ stack[1].pc = "loop"
    /\ Cardinality(LinkGets(2)) = 1
    /\ StatusInIndex(completedFile, 2) = "success"
    /\ InInfoFile(2)
    /\ ~HasEntry(completedFile, 4)
    /\ processed_movies = {1, 2, 3}

=============================================================================
